---- MODULE Spec2Model ----
(***************************************************************************)
(* Model of src/compat/texture_loader_compat.cpp (gdsdecomp): the format   *)
(* sniffer TextureLoaderCompat::recognize, the legacy stream body reader   *)
(* load_image_from_fileV3 with its callers, and the layered decoders with  *)
(* the 3D / layered loaders.                                               *)
(*                                                                         *)
(* Strings the code inspects character by character (paths, extensions)    *)
(* are sequences of one-character strings.  Error codes and enum values    *)
(* are the strings of their C++ names.                                     *)
(***************************************************************************)
EXTENDS Integers, Sequences, FiniteSets, TLC

VARIABLES
    \* ---- TextureLoaderCompat::recognize ----
    rpc,          \* position inside recognize: idle, opened, header, probe, done
    p_path,       \* the path argument
    f,            \* the file handle: "null" or "open"
    header,       \* uint8_t header[4]
    bytesRead,    \* what f->get_buffer(header, 4) returned (the code drops it)
    r_err,        \* *r_err
    ret,          \* the returned TextureVersionType
    probeCalls,   \* calls of ResourceFormatLoaderCompatBinary::get_resource_info
    i_info,       \* the probe's ResourceInfo: type and ver_major
    probe_err,    \* the error the probe itself reported
    \* ---- load_image_from_fileV3 and _load_data_stex2d_v3 ----
    ipc,          \* position: idle, body, skip, done
    entry,        \* the function called: load_image_from_fileV3 or _load_data_stex2d_v3
    arg_limit,    \* p_size_limit as the caller of the entry function passed it
    p_size_limit, \* p_size_limit as load_image_from_fileV3 receives it
    tw, th,       \* header width and height
    df,           \* the data-format word
    branch,       \* the body branch taken: raw, raw_mipmaps, or none yet
    sw, sh,       \* the size of the first level kept
    mipmaps2,     \* levels the skip loop may still drop, plus one
    idx,          \* levels skipped
    total_size,   \* Image::get_image_data_size(tw, th, format, true)
    ofs,          \* the offset the reader seeks forward by
    flen,         \* bytes the file holds after the header
    expected,     \* bytes asked of f->get_buffer
    bytes,        \* bytes f->get_buffer delivered
    image,        \* the Ref<Image> &image out parameter
    ierr,         \* the Error returned, "NONE" before the return
    \* ---- load_image_from_fileV3, the PNG / WebP branch ----
    e_mipmaps,    \* uint32_t mipmaps
    e_size,       \* uint32_t size
    e_skips,      \* stored images the skip loop seeked over
    e_declared,   \* the word mipmaps as first read
    e_i,          \* the index i of the decode loop
    e_total,      \* int total_size of the branch
    mipmap_images,\* Vector<Ref<Image>> mipmap_images
    mmReads,      \* reads of a word into mipmaps
    \* ---- a second call on the same file ----
    calls,        \* calls of load_image_from_fileV3 made on the file
    prev,         \* limit, error and image of the first call
    \* ---- the layered decoders and the 3D / layered custom_load ----
    lpc,          \* position: idle, v3open, v3loop, v4open, v4loop, decoded, done
    loader,       \* the loader whose custom_load runs: Texture3D or TextureLayered
    l_path,       \* custom_load's p_path
    l_t,          \* the variant recognize returned to custom_load
    images,       \* custom_load's Vector<Ref<Image>> images, the decoders' r_data
    r_width, r_height, r_depth,   \* the decoders' out parameters
    r_type,       \* the version 4 shape-type code
    r_mipmaps,    \* the decoders' r_mipmaps
    flags,        \* the version 3 flags word
    l_format,     \* the version 3 pixel format after translation
    l_code,       \* the version 3 pixel format code read
    compression,  \* the version 3 compression mode
    l_limit,      \* the version 4 iteration count
    layer,        \* the loop index: layers pushed by this call
    lflen,        \* bytes the file holds after the header
    lfpos,        \* the read position after the header
    overflow,     \* a memcpy wrote past img_data
    derr,         \* the Error the decoder returned, "NONE" before
    r_error,      \* custom_load's *r_error
    lres,         \* what custom_load returned: NONE, null, texture, crash
    \* ---- the version 4 decoders, 2D and layered ----
    v4_version,   \* the version word read
    v4_words,     \* 32-bit words read after the magic
    v4_decodes,   \* calls of CompressedTexture2D::load_image_from_file
    v4_written,   \* the output parameters written
    \* ---- _load_data_ctex2d_v4 and the 2D custom_load ----
    cpc,          \* position: idle, v3, v4, decoded, done
    c_caller,     \* who called the decoder: custom_load or direct
    c_t,          \* the variant recognize gave the 2D custom_load
    c_arg_limit,  \* p_size_limit as passed to _load_data_ctex2d_v4
    c_limit,      \* p_size_limit as handed to the engine's image reader
    c_pos,        \* the file position the engine's image reader starts at
    tw_custom, th_custom,   \* the size-override words
    r_texture_flags,        \* the flags word
    r_data_format,          \* the data-format word
    c_image,      \* the image the engine's reader returned
    c_err,        \* the Error _load_data_ctex2d_v4 returned
    c_r_error,    \* the 2D custom_load's *r_error
    c_res,        \* what the 2D custom_load returned: NONE, null, texture, crash
    extra,        \* info->extra of the returned texture
    \* LargeTextureConverterCompat::convert
    ltpc,         \* where the call is: idle, loop, running, done
    lt_data,      \* the (offset, texture) pairs of _data, in their order
    whole_size,   \* the last element of _data
    info,         \* the ResourceInfo of the resource converted
    pieces,       \* the pieces, sorted
    max_piece_size,
    piece_i,      \* i of the loop over the pieces, from 1
    expected_x,
    expected_y,
    offsets,      \* the offsets of the images, gaps included
    lt_images,    \* images
    lt_res,       \* what convert returned: NONE, null, texture, crash
    lt_info,      \* the ResourceInfo set on the texture
    lt_calls,     \* the calls of convert so far
    lt_prev,      \* the input and output of the first call of two
    lt_more,      \* the images pushed past the last one kept here, modulo 2
    \* merge_resource_info
    mpc,          \* idle, done
    m_site,       \* the caller
    new_dict,     \* the first argument
    texture_dict, \* the second argument
    int_flags,    \* the third argument
    m_out,        \* the ResourceInfo set on the texture
    \* load_images_from_layered_tex
    li_pc,        \* idle, loading, done
    li_err,       \* *r_err
    li_ret        \* what the call returned: NONE, empty, data, crash

recogVars == <<rpc, p_path, f, header, bytesRead, r_err, ret, probeCalls, i_info, probe_err>>

embVars == <<e_mipmaps, e_size, e_skips, e_declared, e_i, e_total, mipmap_images, mmReads>>

imgVars == <<ipc, entry, arg_limit, p_size_limit, tw, th, df, branch, sw, sh, mipmaps2,
             idx, total_size, ofs, flen, expected, bytes, image, ierr, embVars,
             calls, prev>>

layVars == <<lpc, loader, l_path, l_t, images, r_width, r_height, r_depth, r_type,
             r_mipmaps, flags, l_format, l_code, compression, l_limit, layer, lflen, lfpos,
             overflow, derr, r_error, lres>>

v4Vars == <<v4_version, v4_words, v4_decodes, v4_written>>

ctexVars == <<cpc, c_caller, c_t, c_arg_limit, c_limit, c_pos, tw_custom, th_custom, r_texture_flags,
              r_data_format, c_image, c_err, c_r_error, c_res, extra>>

ltVars == <<ltpc, lt_data, whole_size, info, pieces, max_piece_size, piece_i, expected_x,
            expected_y, offsets, lt_images, lt_res, lt_info, lt_calls, lt_prev, lt_more>>

mergeVars == <<mpc, m_site, new_dict, texture_dict, int_flags, m_out>>

liVars == <<li_pc, li_err, li_ret>>

vars == <<recogVars, imgVars, layVars, v4Vars, ctexVars, ltVars, mergeVars, liVars>>

Max(a, b) == IF a >= b THEN a ELSE b

Min(a, b) == IF a <= b THEN a ELSE b

(***************************************************************************)
(* Bounds.                                                                 *)
(***************************************************************************)
\* largest major version the probe reports
MaxVer == 5

\* the probe may also report versions down to -MaxNegVer
MaxNegVer == 1

\* largest width and height a file header declares
MaxDim == 8

\* largest size limit requested
MaxLimit == 4

\* largest depth or layer count a layered file declares
MaxDepth == 2

\* largest mipmap count a layered file declares
MaxMips == 2

\* largest version word of a version 4 layered file
MaxVersion == 2

\* most stored images a PNG / WebP body holds before the file ends
MaxChain == 3

(***************************************************************************)
(* Strings.                                                                *)
(***************************************************************************)
ext_ctexarray == <<"c", "t", "e", "x", "a", "r", "r", "a", "y">>

ext_ccube == <<"c", "c", "u", "b", "e">>

ext_ccubearray == <<"c", "c", "u", "b", "e", "a", "r", "r", "a", "y">>

\* The paths recognize is called with: each layered extension, upper- and
\* mixed-case spellings of them, other extensions, no extension, and a dot
\* that belongs to a directory name.
Paths ==
    { <<"t", ".">> \o ext_ctexarray,
      <<"t", ".">> \o ext_ccube,
      <<"t", ".">> \o ext_ccubearray,
      <<"t", ".", "C", "C", "U", "B", "E">>,
      <<"t", ".", "C", "t", "e", "x", "A", "r", "r", "a", "y">>,
      <<"t", ".", "c", "t", "e", "x", "3", "d">>,
      <<"t", ".", "s", "t", "e", "x">>,
      <<"t">>,
      <<"d", ".", "c", "c", "u", "b", "e", "/", "t">> }

\* String::rfind_char: the last index (0-based) of c in s, -1 when absent
rfind_char(s, c) ==
    LET hits == {i \in 1..Len(s) : s[i] = c}
    IN  IF hits = {} THEN 0 - 1
        ELSE (CHOOSE i \in hits : \A j \in hits : j <= i) - 1

\* String::get_extension: the text after the last '.', empty when there is
\* no dot or the last dot precedes a path separator
get_extension(s) ==
    LET pos == rfind_char(s, ".")
        sep == Max(rfind_char(s, "/"), rfind_char(s, "\\"))
    IN  IF pos < 0 \/ pos < sep THEN <<>>
        ELSE SubSeq(s, pos + 2, Len(s))

(***************************************************************************)
(* recognize: the magic dispatch.                                          *)
(***************************************************************************)
Magic(a, b, c, d) == <<a, b, c, d>>

\* The bytes the code compares at each header position, and one other byte.
HeaderBytes ==
    [ {1, 2, 3, 4} ->
        {"G", "D", "S", "T", "3", "A", "L", "2", "R", "C", "X"} ]

HeaderByteAt(i) ==
    CASE i = 1 -> {"G", "R", "X"}
      [] i = 2 -> {"D", "S", "X"}
      [] i = 3 -> {"S", "3", "A", "T", "R", "C", "X"}
      [] OTHER -> {"T", "L", "2", "C", "X"}

\* every header[4] content the dispatch can tell apart
Headers == {h \in HeaderBytes : \A i \in 1..4 : h[i] \in HeaderByteAt(i)}

\* ext == "ctexarray" || ext == "ccube" || ext == "ccubearray"
LayeredExt(ext) ==
    ext = ext_ctexarray \/ ext = ext_ccube \/ ext = ext_ccubearray

\* a plausible slip: the GD3T and GDAT branches exchanged
MagicType_swapped(h, ext) ==
    CASE h = Magic("G", "D", "S", "T") -> "FORMAT_V3_STREAM_TEXTURE2D"
      [] h = Magic("G", "D", "3", "T") -> "FORMAT_V3_STREAM_TEXTUREARRAY"
      [] h = Magic("G", "D", "A", "T") -> "FORMAT_V3_STREAM_TEXTURE3D"
      [] h = Magic("G", "S", "T", "L") ->
            IF LayeredExt(ext) THEN "FORMAT_V4_COMPRESSED_TEXTURELAYERED"
            ELSE "FORMAT_V4_COMPRESSED_TEXTURE3D"
      [] h = Magic("G", "S", "T", "2") -> "FORMAT_V4_COMPRESSED_TEXTURE2D"
      [] h = Magic("R", "S", "R", "C") \/ h = Magic("R", "S", "C", "C") -> "BINARY"
      [] OTHER -> "NONE"

\* The if / else-if chain over header[0..3]: the variant returned at once,
\* "BINARY" for the branch that asks the probe, "NONE" for the fall-through.
MagicType(h, ext) ==
    CASE h = Magic("G", "D", "S", "T") -> "FORMAT_V3_STREAM_TEXTURE2D"
      [] h = Magic("G", "D", "3", "T") -> "FORMAT_V3_STREAM_TEXTURE3D"
      [] h = Magic("G", "D", "A", "T") -> "FORMAT_V3_STREAM_TEXTUREARRAY"
      [] h = Magic("G", "S", "T", "L") ->
            IF LayeredExt(ext) THEN "FORMAT_V4_COMPRESSED_TEXTURELAYERED"
            ELSE "FORMAT_V4_COMPRESSED_TEXTURE3D"
      [] h = Magic("G", "S", "T", "2") -> "FORMAT_V4_COMPRESSED_TEXTURE2D"
      [] h = Magic("R", "S", "R", "C") \/ h = Magic("R", "S", "C", "C") -> "BINARY"
      [] OTHER -> "NONE"

(***************************************************************************)
(* recognize: the probe branch.                                            *)
(***************************************************************************)
\* errors FileAccess::open reports for a file it cannot open
OpenErrors == {"ERR_FILE_NOT_FOUND", "ERR_FILE_CANT_OPEN"}

\* what the probe may report through r_err
ProbeErrors ==
    {"OK", "ERR_PRINTER_ON_FIRE", "ERR_FILE_CANT_OPEN", "ERR_FILE_CORRUPT",
     "ERR_FILE_UNRECOGNIZED"}

\* type names the probe may report: the five the table knows, two it does not
ProbeTypes ==
    {"Texture", "ImageTexture", "AtlasTexture", "LargeTexture", "CubeMap",
     "PackedScene", ""}

ProbeVersions == (0 - MaxNegVer)..MaxVer

NoInfo == [type |-> "", ver_major |-> 0]

\* a plausible slip: the atlas switch written like the ImageTexture test
AtlasType_le2(v) ==
    IF v <= 2 THEN "FORMAT_V2_ATLAS_TEXTURE"
    ELSE IF v = 3 THEN "FORMAT_V3_ATLAS_TEXTURE"
    ELSE "FORMAT_V4_ATLAS_TEXTURE"

\* switch (i_info->ver_major) { case 1: case 2: ...; case 3: ...; default: ... }
AtlasType(v) ==
    CASE v = 1 \/ v = 2 -> "FORMAT_V2_ATLAS_TEXTURE"
      [] v = 3 -> "FORMAT_V3_ATLAS_TEXTURE"
      [] OTHER -> "FORMAT_V4_ATLAS_TEXTURE"

\* the lookup on (type, ver_major); "NONE" when no branch returns
TypeTable(type, v) ==
    CASE type = "Texture" -> "FORMAT_V2_TEXTURE"
      [] type = "ImageTexture" ->
            IF v <= 2 THEN "FORMAT_V2_IMAGE_TEXTURE"
            ELSE IF v = 3 THEN "FORMAT_V3_IMAGE_TEXTURE"
            ELSE "FORMAT_V4_IMAGE_TEXTURE"
      [] type = "AtlasTexture" -> AtlasType(v)
      [] type = "LargeTexture" -> "FORMAT_V2_LARGE_TEXTURE"
      [] type = "CubeMap" -> "FORMAT_V2_CUBEMAP"
      [] OTHER -> "NONE"

\* a plausible slip: every non-OK probe error is forgiven
ProbeError_forgiving(e) == [fail |-> FALSE, err |-> "OK"]

\* if (*r_err == ERR_PRINTER_ON_FIRE) *r_err = OK; else if (*r_err) fail
ProbeError(e) ==
    IF e = "ERR_PRINTER_ON_FIRE" THEN [fail |-> FALSE, err |-> "OK"]
    ELSE IF e # "OK" THEN [fail |-> TRUE, err |-> e]
    ELSE [fail |-> FALSE, err |-> e]

(***************************************************************************)
(* recognize: the steps.                                                   *)
(***************************************************************************)
\* FileAccess::open and the ERR_FAIL_COND_V_MSG after it
RecognizeOpen ==
    /\ rpc = "idle"
    /\ \E path \in Paths, e \in OpenErrors \cup {"OK"} :
        /\ p_path' = path
        /\ r_err' = e
        /\ f' = IF e = "OK" THEN "open" ELSE "null"
        /\ IF e # "OK"
           THEN /\ rpc' = "done"
                /\ ret' = "FORMAT_NOT_TEXTURE"
           ELSE /\ rpc' = "opened"
                /\ ret' = ret
    /\ UNCHANGED <<header, bytesRead, probeCalls, i_info, probe_err, imgVars, layVars, v4Vars, ctexVars, ltVars, mergeVars, liVars>>

\* uint8_t header[4]; f->get_buffer(header, 4): the file supplies n bytes;
\* header is not initialised, so the other 4 - n bytes are indeterminate.
RecognizeReadHeader ==
    /\ rpc = "opened"
    /\ \E n \in 0..4, h \in Headers :
        /\ bytesRead' = n
        /\ header' = h
    /\ rpc' = "header"
    /\ UNCHANGED <<p_path, f, r_err, ret, probeCalls, i_info, probe_err, imgVars, layVars, v4Vars, ctexVars, ltVars, mergeVars, liVars>>

\* the comparisons on header[0..3]
RecognizeMagic ==
    /\ rpc = "header"
    /\ LET m == MagicType(header, get_extension(p_path))
       IN  CASE m = "BINARY" ->
                    /\ rpc' = "probe"
                    /\ UNCHANGED <<r_err, ret>>
             [] m = "NONE" ->
                    /\ rpc' = "done"
                    /\ r_err' = "ERR_FILE_UNRECOGNIZED"
                    /\ ret' = "FORMAT_NOT_TEXTURE"
             [] OTHER ->
                    /\ rpc' = "done"
                    /\ ret' = m
                    /\ r_err' = r_err
    /\ UNCHANGED <<p_path, f, header, bytesRead, probeCalls, i_info, probe_err, imgVars, layVars, v4Vars, ctexVars, ltVars, mergeVars, liVars>>

\* rlcb.get_resource_info(p_path, r_err) and the lookup on its result
RecognizeProbe ==
    /\ rpc = "probe"
    /\ \E type \in ProbeTypes, v \in ProbeVersions, e \in ProbeErrors :
        LET pe == ProbeError(e)
            t  == TypeTable(type, v)
        IN  /\ i_info' = [type |-> type, ver_major |-> v]
            /\ probe_err' = e
            /\ IF pe.fail
               THEN /\ r_err' = pe.err
                    /\ ret' = "FORMAT_NOT_TEXTURE"
               ELSE IF t = "NONE"
               THEN /\ r_err' = "ERR_FILE_UNRECOGNIZED"
                    /\ ret' = "FORMAT_NOT_TEXTURE"
               ELSE /\ r_err' = pe.err
                    /\ ret' = t
    /\ probeCalls' = probeCalls + 1
    /\ rpc' = "done"
    /\ UNCHANGED <<p_path, f, header, bytesRead, imgVars, layVars, v4Vars, ctexVars, ltVars, mergeVars, liVars>>

InitRecognize ==
    /\ rpc = "idle"
    /\ p_path = <<>>
    /\ f = "null"
    /\ header = Magic("X", "X", "X", "X")
    /\ bytesRead = 0
    /\ r_err = "UNINIT"
    /\ ret = "NONE"
    /\ probeCalls = 0
    /\ i_info = NoInfo
    /\ probe_err = "NONE"

NextRecognize ==
    \/ RecognizeOpen
    \/ RecognizeReadHeader
    \/ RecognizeMagic
    \/ RecognizeProbe

(***************************************************************************)
(* The data-format word and the engine's image size formulas.              *)
(***************************************************************************)
FORMAT_MASK_IMAGE_FORMAT == 1048575

FORMAT_BIT_PNG == 1048576

FORMAT_BIT_WEBP == 2097152

FORMAT_BIT_STREAM == 4194304

FORMAT_BIT_HAS_MIPMAPS == 8388608

\* V3Image::FORMAT_MAX, the number of pixel formats of the version 3 engine
V3_FORMAT_MAX == 37

\* x & bit, for a single-bit mask
BitSet(x, bit) == (x \div bit) % 2 = 1

\* df & FORMAT_MASK_IMAGE_FORMAT
ImageFormatOf(d) == d % (FORMAT_MASK_IMAGE_FORMAT + 1)

\* The version 3 format codes in the files: L8, LA8, the deprecated
\* RGBA5551, and a code past the end of the enumeration.
V3FormatCodes == {0, 1, 7, V3_FORMAT_MAX + 3}

\* the raw data-format words: a format code, with or without the stream and
\* mipmap bits
RawDataFormats ==
    { c + s * FORMAT_BIT_STREAM + m * FORMAT_BIT_HAS_MIPMAPS :
        c \in V3FormatCodes, s \in {0, 1}, m \in {0, 1} }

\* the data-format words with the PNG or the WebP bit
EmbeddedDataFormats ==
    { FORMAT_BIT_PNG + FORMAT_BIT_STREAM, FORMAT_BIT_WEBP + FORMAT_BIT_STREAM,
      FORMAT_BIT_PNG }

DataFormats == RawDataFormats \cup EmbeddedDataFormats

\* df & FORMAT_BIT_PNG || df & FORMAT_BIT_WEBP
Embedded(d) == BitSet(d, FORMAT_BIT_PNG) \/ BitSet(d, FORMAT_BIT_WEBP)

\* the header sizes of the files with a PNG / WebP body
EmbeddedSizes == {<<1, 1>>, <<2, 2>>, <<4, 4>>}

\* the header sizes of a file with data-format word d
HeaderSizes(d) ==
    IF Embedded(d) THEN EmbeddedSizes ELSE (0..MaxDim) \X (0..MaxDim)

\* ImageEnumCompat::convert_image_format_enum_v3_to_v4: the version 4 format
\* of a version 3 code, Image::FORMAT_MAX for a deprecated or unknown code
convert_image_format_enum_v3_to_v4(c) ==
    CASE c = 0 -> "FORMAT_L8"
      [] c = 1 -> "FORMAT_LA8"
      [] OTHER -> "FORMAT_MAX"

\* Image::get_format_pixel_size
get_format_pixel_size(fmt) == IF fmt = "FORMAT_LA8" THEN 2 ELSE 1

\* Image::_get_dst_image_size: the loop over the levels from (w, h) down,
\* to level p_mipmaps, or to 1 x 1 when p_mipmaps is negative; mm counts the
\* levels after the first.  Both formats have 1 x 1 blocks.
RECURSIVE _get_dst_image_size(_, _, _, _, _)
_get_dst_image_size(w, h, fmt, mm, p_mipmaps) ==
    LET s  == w * h * get_format_pixel_size(fmt)
        nw == Max(1, w \div 2)
        nh == Max(1, h \div 2)
        stop == IF p_mipmaps >= 0 THEN mm = p_mipmaps ELSE w = 1 /\ h = 1
    IN  IF stop THEN [size |-> s, mm |-> mm]
        ELSE LET rest == _get_dst_image_size(nw, nh, fmt, mm + 1, p_mipmaps)
             IN  [size |-> s + rest.size, mm |-> rest.mm]

\* Image::get_image_data_size
get_image_data_size(w, h, fmt, mipmaps) ==
    _get_dst_image_size(w, h, fmt, 0, IF mipmaps THEN 0 - 1 ELSE 0).size

\* Image::get_image_required_mipmaps
get_image_required_mipmaps(w, h, fmt) ==
    _get_dst_image_size(w, h, fmt, 0, 0 - 1).mm

\* Image::get_image_mipmap_offset
get_image_mipmap_offset(w, h, fmt, p_mipmap) ==
    IF p_mipmap <= 0 THEN 0
    ELSE _get_dst_image_size(w, h, fmt, 0, p_mipmap - 1).size

\* an instantiated Image that holds nothing
EmptyImage ==
    [width |-> 0, height |-> 0, mipmaps |-> FALSE, format |-> "FORMAT_L8", data |-> <<>>]

\* Image::is_empty
is_empty(img) == Len(img.data) = 0

\* Image::initialize_data: rejects a non-positive size and a buffer whose
\* length is not the formula's, leaving the image as it was
initialize_data(img, w, h, mipmaps, fmt, data) ==
    IF w <= 0 \/ h <= 0 \/ Len(data) # get_image_data_size(w, h, fmt, mipmaps)
    THEN img
    ELSE [width |-> w, height |-> h, mipmaps |-> mipmaps, format |-> fmt, data |-> data]

(***************************************************************************)
(* The file body.  Its byte at offset i (from 0) is the number i + 1, so a *)
(* buffer shows which file bytes it holds; 0 is a zero-filled byte and     *)
(* Stale a byte of uninitialised memory that is not zero.                  *)
(***************************************************************************)
Stale == 0 - 1

\* FileAccess::get_buffer: the bytes delivered for a request of n at pos
Delivered(len, pos, n) == Min(n, Max(len - pos, 0))

\* a plausible slip: the read ignores the seek
FileBytes_unseeked(pos, n) == [i \in 1..n |-> i]

\* the bytes themselves
FileBytes(pos, n) == [i \in 1..n |-> pos + i]

\* n bytes of value b
Fill(n, b) == [i \in 1..n |-> b]

\* File lengths around what a read at offset o for n bytes needs: empty, cut
\* at the offset, one byte short, exact, one byte more.
FileLens(o, n) == {0, o, Max(o + n - 1, 0), o + n, o + n + 1}

(***************************************************************************)
(* load_image_from_fileV3 and its caller _load_data_stex2d_v3.             *)
(***************************************************************************)
\* a plausible slip: && in place of || between the two edge tests
SkipCond_and(m, limit, w, h) == m > 1 /\ limit > 0 /\ (w > limit /\ h > limit)

\* a plausible slip: the comparisons with the limit turned round
SkipCond_under(m, limit, w, h) == m > 1 /\ limit > 0 /\ (w < limit \/ h < limit)

\* mipmaps2 > 1 && p_size_limit > 0 && (sw > p_size_limit || sh > p_size_limit)
SkipCond(m, limit, w, h) == m > 1 /\ limit > 0 /\ (w > limit \/ h > limit)

\* the locals of a call that has not reached them
ImageLocalsUnset ==
    /\ branch' = "none"
    /\ sw' = 0 /\ sh' = 0 /\ mipmaps2' = 0 /\ idx' = 0
    /\ total_size' = 0 /\ ofs' = 0 /\ flen' = 0 /\ expected' = 0 /\ bytes' = 0
    /\ e_mipmaps' = 0 /\ e_size' = 0 /\ e_skips' = 0 /\ e_declared' = 0 /\ e_i' = 0 /\ e_total' = 0
    /\ mipmap_images' = <<>> /\ mmReads' = 0

\* no first call to compare with
NoPrev == [limit |-> 0, ierr |-> "NONE", image |-> EmptyImage]

\* load_image_from_fileV3 called on an open file placed at the body, with an
\* instantiated image
LoadImageFromFileV3 ==
    /\ ipc = "idle" /\ lpc = "idle" /\ cpc = "idle"
    /\ \E d \in DataFormats, limit \in (0 - 1)..MaxLimit : \E sz \in HeaderSizes(d) :
        /\ tw' = sz[1] /\ th' = sz[2] /\ df' = d
        /\ arg_limit' = limit
        /\ p_size_limit' = limit
    /\ calls' = 1 /\ prev' = NoPrev
    /\ entry' = "load_image_from_fileV3"
    /\ image' = EmptyImage
    /\ ierr' = "NONE"
    /\ ipc' = "body"
    /\ ImageLocalsUnset
    /\ UNCHANGED <<recogVars, layVars, v4Vars, ctexVars, ltVars, mergeVars, liVars>>

\* _load_data_stex2d_v3 up to its call of load_image_from_fileV3: the open,
\* the header fields, and p_size_limit = 0
LoadDataStex2dV3 ==
    /\ ipc = "idle" /\ lpc = "idle" /\ cpc \in {"idle", "v3"}
    /\ \E e \in OpenErrors \cup {"OK"}, d \in DataFormats,
          limit \in (IF cpc = "v3" THEN {0} ELSE (0 - 1)..MaxLimit) :
       \E sz \in HeaderSizes(d) :
        LET w == sz[1]
            h == sz[2]
        IN
        /\ arg_limit' = limit
        /\ IF e # "OK"
           THEN /\ ierr' = e
                /\ ipc' = "done"
                /\ tw' = 0 /\ th' = 0 /\ df' = 0
           ELSE /\ ierr' = "NONE"
                /\ ipc' = "body"
                /\ tw' = w /\ th' = h /\ df' = d
    /\ p_size_limit' = 0
    /\ calls' = 1 /\ prev' = NoPrev
    /\ entry' = "_load_data_stex2d_v3"
    /\ image' = EmptyImage
    /\ ImageLocalsUnset
    /\ UNCHANGED <<recogVars, layVars, v4Vars, ctexVars, ltVars, mergeVars, liVars>>

\* the raw branch up to the test of the mipmap bit
ImageFormat ==
    /\ ipc = "body"
    /\ ~Embedded(df)
    /\ LET v3_fmt == ImageFormatOf(df)
           format == convert_image_format_enum_v3_to_v4(v3_fmt)
       IN  IF format = "FORMAT_MAX"
           THEN /\ ierr' = IF v3_fmt > 0 /\ v3_fmt < V3_FORMAT_MAX
                           THEN "ERR_UNAVAILABLE" ELSE "ERR_FILE_CORRUPT"
                /\ ipc' = "done"
                /\ UNCHANGED <<branch, sw, sh, mipmaps2, idx, total_size>>
           ELSE IF ~BitSet(df, FORMAT_BIT_HAS_MIPMAPS)
           THEN /\ branch' = "raw"
                /\ ipc' = "read"
                /\ UNCHANGED <<ierr, sw, sh, mipmaps2, idx, total_size>>
           ELSE /\ branch' = "raw_mipmaps"
                /\ ipc' = "skip"
                /\ sw' = tw
                /\ sh' = th
                /\ mipmaps2' = get_image_required_mipmaps(tw, th, format)
                /\ total_size' = get_image_data_size(tw, th, format, TRUE)
                /\ idx' = 0
                /\ ierr' = ierr
    /\ UNCHANGED <<entry, arg_limit, p_size_limit, tw, th, df, ofs, flen, expected,
                   bytes, image, embVars, calls, prev>>
    /\ UNCHANGED <<recogVars, layVars, v4Vars, ctexVars, ltVars, mergeVars, liVars>>

\* the body without mipmaps: one read of the formula's size, whose count
\* is dropped; the Vector's bytes the read does not reach keep what resize
\* left there
ImageReadRaw ==
    /\ ipc = "read"
    /\ LET format == convert_image_format_enum_v3_to_v4(ImageFormatOf(df))
           size   == get_image_data_size(tw, th, format, FALSE)
       IN  \E len \in FileLens(0, size), b \in {0, Stale} :
            LET got  == Delivered(len, 0, size)
                data == FileBytes(0, got) \o Fill(size - got, b)
                img  == initialize_data(image, tw, th, FALSE, format, data)
            IN  /\ flen' = len
                /\ expected' = size
                /\ bytes' = got
                /\ image' = img
                /\ ierr' = IF is_empty(img) THEN "ERR_FILE_CORRUPT" ELSE "OK"
    /\ ipc' = "done"
    /\ UNCHANGED <<entry, arg_limit, p_size_limit, tw, th, df, branch, sw, sh, mipmaps2,
                   idx, total_size, ofs, embVars, calls, prev>>
    /\ UNCHANGED <<recogVars, layVars, v4Vars, ctexVars, ltVars, mergeVars, liVars>>

\* one turn of the loop that skips a level
ImageSkipLevel ==
    /\ ipc = "skip"
    /\ SkipCond(mipmaps2, p_size_limit, sw, sh)
    /\ sw' = Max(sw \div 2, 1)
    /\ sh' = Max(sh \div 2, 1)
    /\ mipmaps2' = mipmaps2 - 1
    /\ idx' = idx + 1
    /\ UNCHANGED <<ipc, entry, arg_limit, p_size_limit, tw, th, df, branch, total_size,
                   ofs, flen, expected, bytes, image, ierr, embVars, calls, prev>>
    /\ UNCHANGED <<recogVars, layVars, v4Vars, ctexVars, ltVars, mergeVars, liVars>>

\* after the loop: the offset, the seek, the read with its zero fill and
\* its check, initialize_data, and the final check of the image
ImageReadMipmaps ==
    /\ ipc = "skip"
    /\ ~SkipCond(mipmaps2, p_size_limit, sw, sh)
    /\ LET format == convert_image_format_enum_v3_to_v4(ImageFormatOf(df))
           o      == get_image_mipmap_offset(tw, th, format, idx)
           want   == total_size - o
       IN  /\ ofs' = o
           /\ IF want <= 0
              THEN /\ ierr' = "ERR_FILE_CORRUPT"
                   /\ UNCHANGED <<flen, expected, bytes, image>>
              ELSE \E len \in (IF calls = 1 THEN FileLens(o, want) ELSE {flen}) :
                    LET got  == Delivered(len, o, want)
                        data == FileBytes(o, got) \o Fill(want - got, 0)
                        img  == initialize_data(image, sw, sh, TRUE, format, data)
                    IN  /\ flen' = len
                        /\ expected' = want
                        /\ bytes' = got
                        /\ IF got # want
                           THEN /\ ierr' = "ERR_FILE_CORRUPT"
                                /\ image' = image
                           ELSE /\ image' = img
                                /\ ierr' = IF is_empty(img) THEN "ERR_FILE_CORRUPT" ELSE "OK"
    /\ ipc' = "done"
    /\ UNCHANGED <<entry, arg_limit, p_size_limit, tw, th, df, branch, sw, sh, mipmaps2,
                   idx, total_size, embVars, calls, prev>>
    /\ UNCHANGED <<recogVars, layVars, v4Vars, ctexVars, ltVars, mergeVars, liVars>>

\* a pixel an image codec produced
Decoded == 0 - 2

\* what an image codec hands back for one stored image: nothing, or an image
\* of the size and format the stored bytes say
CodecImage(w, h, fmt) ==
    [width |-> w, height |-> h, mipmaps |-> FALSE, format |-> fmt,
     data |-> Fill(get_image_data_size(w, h, fmt, FALSE), Decoded)]

NullImage == [width |-> 0, height |-> 0, mipmaps |-> FALSE, format |-> "null", data |-> <<>>]

\* the bytes of the images of a run, one after the other
RECURSIVE Concat(_)
Concat(run) ==
    IF Len(run) = 0 THEN <<>>
    ELSE Concat(SubSeq(run, 1, Len(run) - 1)) \o run[Len(run)].data

(***************************************************************************)
(* load_image_from_fileV3, the PNG / WebP branch.  The body is a chain of  *)
(* stored images; the file ends after at most MaxChain of them, and a word *)
(* read past the end is 0.                                                 *)
(***************************************************************************)
\* largest word of the body
MaxWord == 3

\* uint32_t mipmaps-- : 0 wraps to the largest uint32_t, 4294967295, which
\* the model writes as the largest integer the model checker has; both are
\* greater than any number of stored images
Wrapped == 2147483647

Decrement(m) == IF m = 0 THEN Wrapped ELSE m - 1

\* the values f->get_32() can return once k stored images lie behind
WordsAt(k) == IF k >= MaxChain THEN {0} ELSE 0..MaxWord

\* the images Image::png_unpacker / WebPCompat::webp_unpack_v2v3 can return
\* for the stored image number k
EmbeddedOutcomes(k) ==
    IF k >= MaxChain THEN {NullImage}
    ELSE {NullImage, CodecImage(1, 1, "FORMAT_L8"), CodecImage(2, 2, "FORMAT_L8"),
          CodecImage(1, 1, "FORMAT_LA8")}

\* Image::convert: the same picture in another format
convert(img, fmt) == CodecImage(img.width, img.height, fmt)

\* the branch up to its skip loop: sw, sh, and the words mipmaps and size
ImageEmbeddedOpen ==
    /\ ipc = "body"
    /\ Embedded(df)
    /\ branch' = "embedded"
    /\ sw' = tw /\ sh' = th
    /\ \E m \in WordsAt(0), s \in WordsAt(0) :
        /\ e_mipmaps' = m
        /\ e_declared' = m
        /\ e_size' = s
    /\ mmReads' = 1
    /\ ipc' = "eskip"
    /\ UNCHANGED <<entry, arg_limit, p_size_limit, tw, th, df, mipmaps2, idx, total_size,
                   ofs, flen, expected, bytes, image, ierr, e_skips, e_i, e_total,
                   mipmap_images, calls, prev>>
    /\ UNCHANGED <<recogVars, layVars, v4Vars, ctexVars, ltVars, mergeVars, liVars>>

\* one turn of the skip loop: the seek over size bytes, the two words read
\* into mipmaps and size, the halving, and mipmaps--
ImageEmbeddedSkip ==
    /\ ipc = "eskip"
    /\ SkipCond(e_mipmaps, p_size_limit, sw, sh)
    /\ \E m \in WordsAt(e_skips + 1), s \in WordsAt(e_skips + 1) :
        /\ e_mipmaps' = Decrement(m)
        /\ e_size' = s
    /\ e_skips' = e_skips + 1
    /\ mmReads' = mmReads + 1
    /\ sw' = Max(sw \div 2, 1)
    /\ sh' = Max(sh \div 2, 1)
    /\ UNCHANGED <<ipc, entry, arg_limit, p_size_limit, tw, th, df, branch, mipmaps2, idx,
                   total_size, ofs, flen, expected, bytes, image, ierr, e_i, e_total,
                   e_declared, mipmap_images, calls, prev>>
    /\ UNCHANGED <<recogVars, layVars, v4Vars, ctexVars, ltVars, mergeVars, liVars>>

\* the skip loop is over: total_size = 0 and i = 0
ImageEmbeddedLoopStart ==
    /\ ipc = "eskip"
    /\ ~SkipCond(e_mipmaps, p_size_limit, sw, sh)
    /\ e_i' = 0
    /\ e_total' = 0
    /\ mipmap_images' = <<>>
    /\ ipc' = "eloop"
    /\ UNCHANGED <<entry, arg_limit, p_size_limit, tw, th, df, branch, sw, sh, mipmaps2,
                   idx, total_size, ofs, flen, expected, bytes, image, ierr, e_mipmaps,
                   e_size, e_skips, e_declared, mmReads, calls, prev>>
    /\ UNCHANGED <<recogVars, layVars, v4Vars, ctexVars, ltVars, mergeVars, liVars>>

\* one turn of the decode loop: the size word (after the first turn), the
\* test for an empty texture, the read, the codec, the test of its image,
\* the conversion to the first image's format
ImageEmbeddedDecode ==
    /\ ipc = "eloop"
    /\ e_i < e_mipmaps
    /\ LET k == e_skips + e_i
       IN  \E s \in (IF e_i > 0 THEN WordsAt(k) ELSE {e_size}), o \in EmbeddedOutcomes(k) :
            /\ e_size' = s
            /\ IF s = 0 \/ o = NullImage \/ is_empty(o)
               THEN /\ ierr' = "ERR_FILE_CORRUPT"
                    /\ ipc' = "done"
                    /\ UNCHANGED <<e_i, e_total, mipmap_images>>
               ELSE LET img == IF e_i # 0 THEN convert(o, mipmap_images[1].format) ELSE o
                    IN  /\ e_total' = e_total + Len(img.data)
                        /\ mipmap_images' = Append(mipmap_images, img)
                        /\ e_i' = e_i + 1
                        /\ UNCHANGED <<ierr, ipc>>
    /\ UNCHANGED <<entry, arg_limit, p_size_limit, tw, th, df, branch, sw, sh, mipmaps2,
                   idx, total_size, ofs, flen, expected, bytes, image, e_mipmaps, e_skips,
                   e_declared, mmReads, calls, prev>>
    /\ UNCHANGED <<recogVars, layVars, v4Vars, ctexVars, ltVars, mergeVars, liVars>>

\* after the decode loop: mipmap_images[0] is read for the format, which
\* stops the process when the list is empty; one image is returned as it
\* is, several are copied one after the other and handed to
\* initialize_data with the header's tw and th; then the final check
ImageEmbeddedCombine ==
    /\ ipc = "eloop"
    /\ e_i >= e_mipmaps
    /\ IF Len(mipmap_images) = 0
       THEN /\ ierr' = "CRASH"
            /\ UNCHANGED image
       ELSE LET format == mipmap_images[1].format
                made == IF Len(mipmap_images) = 1 THEN mipmap_images[1]
                        ELSE initialize_data(image, tw, th, TRUE, format,
                                             Concat(mipmap_images))
            IN  /\ image' = made
                /\ ierr' = IF is_empty(made) THEN "ERR_FILE_CORRUPT" ELSE "OK"
    /\ ipc' = "done"
    /\ UNCHANGED <<entry, arg_limit, p_size_limit, tw, th, df, branch, sw, sh, mipmaps2,
                   idx, total_size, ofs, flen, expected, bytes, embVars, calls, prev>>
    /\ UNCHANGED <<recogVars, layVars, v4Vars, ctexVars, ltVars, mergeVars, liVars>>

\* load_image_from_fileV3 called once more on the same raw mipmapped file,
\* with the file placed at the body again and a fresh image, under another
\* size limit
ImageAgain ==
    /\ ipc = "done"
    /\ calls = 1
    /\ entry = "load_image_from_fileV3"
    /\ branch = "raw_mipmaps"
    /\ expected > 0
    /\ prev' = [limit |-> p_size_limit, ierr |-> ierr, image |-> image]
    /\ calls' = 2
    /\ \E limit \in (0 - 1)..MaxLimit :
        /\ arg_limit' = limit
        /\ p_size_limit' = limit
    /\ image' = EmptyImage
    /\ ierr' = "NONE"
    /\ ipc' = "body"
    /\ branch' = "none"
    /\ sw' = 0 /\ sh' = 0 /\ mipmaps2' = 0 /\ idx' = 0
    /\ total_size' = 0 /\ ofs' = 0 /\ expected' = 0 /\ bytes' = 0
    /\ UNCHANGED <<entry, tw, th, df, flen, embVars>>
    /\ UNCHANGED <<recogVars, layVars, v4Vars, ctexVars, ltVars, mergeVars, liVars>>

InitImage ==
    /\ ipc = "idle"
    /\ entry = "none"
    /\ arg_limit = 0
    /\ p_size_limit = 0
    /\ tw = 0 /\ th = 0 /\ df = 0
    /\ branch = "none"
    /\ sw = 0 /\ sh = 0 /\ mipmaps2 = 0 /\ idx = 0
    /\ total_size = 0 /\ ofs = 0 /\ flen = 0 /\ expected = 0 /\ bytes = 0
    /\ image = EmptyImage
    /\ ierr = "NONE"
    /\ e_mipmaps = 0 /\ e_size = 0 /\ e_skips = 0 /\ e_declared = 0 /\ e_i = 0 /\ e_total = 0
    /\ mipmap_images = <<>> /\ mmReads = 0
    /\ calls = 0 /\ prev = NoPrev

NextImage ==
    \/ LoadImageFromFileV3
    \/ LoadDataStex2dV3
    \/ ImageFormat
    \/ ImageReadRaw
    \/ ImageSkipLevel
    \/ ImageReadMipmaps
    \/ ImageEmbeddedOpen
    \/ ImageEmbeddedSkip
    \/ ImageEmbeddedLoopStart
    \/ ImageEmbeddedDecode
    \/ ImageEmbeddedCombine

NextImageTwice ==
    \/ NextImage
    \/ ImageAgain

(***************************************************************************)
(* Specifications: one per part of the program, each leaving the other     *)
(* parts in their initial state.                                           *)
(***************************************************************************)
(***************************************************************************)
(* The layered decoders and the custom_load of the 3D and layered loaders. *)
(***************************************************************************)

\* the version the version 4 layered decoder accepts at most
LAYERED_FORMAT_VERSION == 1

\* a plausible slip: the version test left out
TooNew_never(version, max) == FALSE

\* version > FORMAT_VERSION, the test of both version 4 decoders
TooNew(version, max) == version > max

\* the RenderingServer layered types: 2D array, cubemap, cubemap array
TEXTURE_LAYERED_2D_ARRAY == 0

LayeredTypes == {0, 1, 2}

\* the variants of the files that are no stream textures
OtherVariants ==
    { "FORMAT_V2_TEXTURE", "FORMAT_V2_IMAGE_TEXTURE", "FORMAT_V2_ATLAS_TEXTURE",
      "FORMAT_V2_LARGE_TEXTURE", "FORMAT_V2_CUBEMAP", "FORMAT_V3_ATLAS_TEXTURE",
      "FORMAT_V3_IMAGE_TEXTURE", "FORMAT_V4_ATLAS_TEXTURE", "FORMAT_V4_IMAGE_TEXTURE" }

\* what recognize can hand a custom_load for a path: a failure, or a variant
\* the path's extension allows
RecognizeResults(path) ==
    { [t |-> "FORMAT_NOT_TEXTURE", err |-> e] :
        e \in OpenErrors \cup {"ERR_FILE_UNRECOGNIZED"} }
    \cup
    { [t |-> v, err |-> "OK"] :
        v \in OtherVariants \cup
              { "FORMAT_V3_STREAM_TEXTURE2D", "FORMAT_V3_STREAM_TEXTUREARRAY",
                "FORMAT_V3_STREAM_TEXTURE3D", "FORMAT_V4_COMPRESSED_TEXTURE2D",
                IF LayeredExt(get_extension(path))
                THEN "FORMAT_V4_COMPRESSED_TEXTURELAYERED"
                ELSE "FORMAT_V4_COMPRESSED_TEXTURE3D" } }

\* the variant each loader decodes with _load_layered_texture_v3
V3Variant(ld) ==
    IF ld = "Texture3D" THEN "FORMAT_V3_STREAM_TEXTURE3D"
    ELSE "FORMAT_V3_STREAM_TEXTUREARRAY"

\* a plausible slip: the layered loader given the 3D loader's variant
V4Variant_3d(ld) == "FORMAT_V4_COMPRESSED_TEXTURE3D"

\* the variant each loader decodes with _load_data_ctexlayered_v4
V4Variant(ld) ==
    IF ld = "Texture3D" THEN "FORMAT_V4_COMPRESSED_TEXTURE3D"
    ELSE "FORMAT_V4_COMPRESSED_TEXTURELAYERED"

\* the layer sizes the files declare
LayerSizes == {<<0, 1>>, <<1, 1>>, <<2, 2>>}

CodecOutcomes ==
    {NullImage} \cup
    { CodecImage(s, s, fmt) : s \in {1, 2}, fmt \in {"FORMAT_L8", "FORMAT_LA8"} }

\* the sequences of at most n codec outcomes
RECURSIVE CodecRuns(_)
CodecRuns(n) ==
    IF n = 0 THEN {<<>>}
    ELSE LET shorter == CodecRuns(n - 1)
         IN  shorter \cup { Append(r, o) : r \in {q \in shorter : Len(q) = n - 1},
                                           o \in CodecOutcomes }

\* nothing read or written by a version 4 decoder yet
V4Unset ==
    /\ v4_version' = 0 /\ v4_words' = 0 /\ v4_decodes' = 0 /\ v4_written' = {}

\* the locals of the decoders before a decoder runs
LayeredLocalsUnset ==
    /\ r_width' = 0 /\ r_height' = 0 /\ r_depth' = 0 /\ r_type' = 0
    /\ r_mipmaps' = FALSE /\ flags' = 0 /\ l_format' = "FORMAT_MAX" /\ l_code' = 0
    /\ compression' = 0 /\ l_limit' = 0 /\ layer' = 0 /\ lflen' = 0 /\ lfpos' = 0
    /\ overflow' = FALSE

\* custom_load up to its call of a decoder: recognize, the early return on
\* FORMAT_NOT_TEXTURE, and the dispatch on the variant
CustomLoadOn(ld, path, r) ==
    /\ lpc = "idle" /\ ipc = "idle" /\ cpc = "idle"
    /\ loader' = ld
    /\ images' = <<>>
    /\ LayeredLocalsUnset
    /\ l_path' = path
    /\ l_t' = r.t
    /\ IF r.t = "FORMAT_NOT_TEXTURE"
       THEN /\ r_error' = r.err
            /\ lres' = "null"
            /\ derr' = "NONE"
            /\ lpc' = "done"
       ELSE IF r.t = V3Variant(ld)
       THEN /\ lpc' = "v3open"
            /\ UNCHANGED <<r_error, lres, derr>>
       ELSE IF r.t = V4Variant(ld)
       THEN /\ lpc' = "v4open"
            /\ UNCHANGED <<r_error, lres, derr>>
       ELSE /\ derr' = "NONE"
            /\ r_error' = "ERR_INVALID_PARAMETER"
            /\ lres' = "null"
            /\ lpc' = "done"
    /\ V4Unset
    /\ UNCHANGED <<recogVars, imgVars, ctexVars, ltVars, mergeVars>>

\* custom_load called by other code, on any path
CustomLoad(ld) ==
    /\ li_pc = "idle"
    /\ \E path \in Paths : \E r \in RecognizeResults(path) : CustomLoadOn(ld, path, r)
    /\ UNCHANGED liVars

CustomLoadTexture3D == CustomLoad("Texture3D")

CustomLoadTextureLayered == CustomLoad("TextureLayered")

\* _load_layered_texture_v3 up to its loop: the open, the header words, the
\* format translation and its check, the compression word
LoadLayeredTextureV3Open ==
    /\ lpc = "v3open"
    /\ \E e \in OpenErrors \cup {"OK"}, sz \in LayerSizes, d \in 0..MaxDepth,
          fl \in {0, 1}, c \in V3FormatCodes, comp \in {0, 2} :
        IF e # "OK"
        THEN /\ derr' = e
             /\ lpc' = "decoded"
             /\ UNCHANGED <<r_width, r_height, r_depth, flags, r_mipmaps, l_format, l_code,
                            compression>>
        ELSE /\ r_width' = sz[1] /\ r_height' = sz[2] /\ r_depth' = d
             /\ flags' = fl
             /\ r_mipmaps' = (fl % 2 = 1)
             /\ l_code' = c
             /\ l_format' = convert_image_format_enum_v3_to_v4(c)
             /\ IF convert_image_format_enum_v3_to_v4(c) = "FORMAT_MAX"
                THEN /\ derr' = "ERR_FILE_CORRUPT"
                     /\ lpc' = "decoded"
                     /\ UNCHANGED compression
                ELSE /\ compression' = comp
                     /\ lpc' = "v3loop"
                     /\ UNCHANGED derr
    /\ UNCHANGED <<loader, l_path, l_t, images, r_type, l_limit, layer, lflen, lfpos,
                   overflow, r_error, lres>>
    /\ UNCHANGED <<recogVars, imgVars, v4Vars, ctexVars, ltVars, mergeVars, liVars>>

\* an image the lossless branch rejects: none, an empty one, or one of
\* another format
BadMipmap(o) == o = NullImage \/ is_empty(o) \/ o.format # l_format

\* one iteration of the layer loop, lossless branch: the mipmap count, the
\* stored images decoded one by one until one is rejected, then the single
\* image taken as it is or the images copied one after the other into a
\* buffer of the size the header's width and height give
LayerLossless ==
    /\ lpc = "v3loop" /\ layer < r_depth /\ compression = 0
    /\ \E mipmaps \in 0..MaxMips, run \in CodecRuns(MaxMips), survives \in BOOLEAN :
        LET n == Len(run)
            failed == n >= 1 /\ BadMipmap(run[n])
            total == get_image_data_size(r_width, r_height, l_format, TRUE)
            cat == Concat(run)
            img_data == [i \in 1..total |-> IF i <= Len(cat) THEN cat[i] ELSE Stale]
            made == initialize_data(EmptyImage, r_width, r_height, TRUE, l_format, img_data)
        IN  /\ n <= mipmaps
            /\ \A i \in 1..(n - 1) : ~BadMipmap(run[i])
            /\ n < mipmaps => failed
            /\ r_mipmaps' = (r_mipmaps \/ mipmaps > 1)
            /\ IF failed
               THEN /\ derr' = "ERR_FILE_CORRUPT"
                    /\ lpc' = "decoded"
                    /\ UNCHANGED <<images, layer, overflow, lres>>
               ELSE IF n = 1
               THEN /\ images' = Append(images, run[1])
                    /\ layer' = layer + 1
                    /\ UNCHANGED <<derr, lpc, overflow, lres>>
               ELSE IF Len(cat) > total /\ ~survives
               THEN /\ overflow' = TRUE
                    /\ lres' = "crash"
                    /\ lpc' = "done"
                    /\ UNCHANGED <<images, layer, derr>>
               ELSE /\ overflow' = (overflow \/ Len(cat) > total)
                    /\ IF is_empty(made)
                       THEN /\ derr' = "ERR_FILE_CORRUPT"
                            /\ lpc' = "decoded"
                            /\ UNCHANGED <<images, layer>>
                       ELSE /\ images' = Append(images, made)
                            /\ layer' = layer + 1
                            /\ UNCHANGED <<derr, lpc>>
                    /\ UNCHANGED lres
    /\ UNCHANGED <<loader, l_path, l_t, r_width, r_height, r_depth, r_type, flags,
                   l_format, l_code, compression, l_limit, lflen, lfpos, r_error>>
    /\ UNCHANGED <<recogVars, imgVars, v4Vars, ctexVars, ltVars, mergeVars, liVars>>

\* the body lengths that put the end of the file at, before or after the end
\* of a layer
LayerFileLens(total) ==
    { n \in { k * total + j : k \in 0..MaxDepth, j \in {0 - 1, 0, 1} } : n >= 0 }

\* one iteration of the layer loop, raw branch: the size from the formula,
\* the read, its check, the image
LayerRaw ==
    /\ lpc = "v3loop" /\ layer < r_depth /\ compression # 0
    /\ LET mipmaps == (flags % 2 = 1)
           total == get_image_data_size(r_width, r_height, l_format, mipmaps)
       IN  \E len \in (IF layer = 0 THEN LayerFileLens(total) ELSE {lflen}) :
            LET got == Delivered(len, lfpos, total)
                made == initialize_data(EmptyImage, r_width, r_height, mipmaps, l_format,
                                        FileBytes(lfpos, total))
            IN  /\ lflen' = len
                /\ lfpos' = lfpos + got
                /\ IF got # total
                   THEN /\ derr' = "ERR_FILE_CORRUPT"
                        /\ lpc' = "decoded"
                        /\ UNCHANGED <<images, layer>>
                   ELSE /\ images' = Append(images, made)
                        /\ layer' = layer + 1
                        /\ UNCHANGED <<derr, lpc>>
    /\ UNCHANGED <<loader, l_path, l_t, r_width, r_height, r_depth, r_type, r_mipmaps,
                   flags, l_format, l_code, compression, l_limit, overflow, r_error, lres>>
    /\ UNCHANGED <<recogVars, imgVars, v4Vars, ctexVars, ltVars, mergeVars, liVars>>

\* the loop of _load_layered_texture_v3 is over: return OK
LoadLayeredTextureV3Return ==
    /\ lpc = "v3loop" /\ layer >= r_depth
    /\ derr' = "OK"
    /\ lpc' = "decoded"
    /\ UNCHANGED <<loader, l_path, l_t, images, r_width, r_height, r_depth, r_type,
                   r_mipmaps, flags, l_format, l_code, compression, l_limit, layer, lflen, lfpos,
                   overflow, r_error, lres>>
    /\ UNCHANGED <<recogVars, imgVars, v4Vars, ctexVars, ltVars, mergeVars, liVars>>

\* _load_data_ctexlayered_v4 up to its loop: the open, the magic, the
\* version, the header words, the clearing of the list, the iteration count
LoadDataCtexlayeredV4Open ==
    /\ lpc = "v4open"
    /\ \E opened \in BOOLEAN, gstl \in BOOLEAN, version \in 0..MaxVersion,
          d \in 0..MaxDepth, ty \in LayeredTypes \cup {3}, mipmaps \in 0..MaxMips :
        IF ~opened \/ ~gstl \/ TooNew(version, LAYERED_FORMAT_VERSION)
        THEN /\ derr' = IF ~opened THEN "ERR_CANT_OPEN"
                        ELSE IF ~gstl THEN "ERR_FILE_UNRECOGNIZED"
                        ELSE "ERR_FILE_CORRUPT"
             /\ lpc' = "decoded"
             /\ v4_words' = IF opened /\ gstl THEN 1 ELSE 0
             /\ v4_version' = IF opened /\ gstl THEN version ELSE 0
             /\ UNCHANGED <<images, r_depth, r_type, r_mipmaps, l_limit, v4_written>>
        ELSE /\ v4_words' = 8
             /\ v4_version' = version
             /\ v4_written' = {"r_depth", "r_type", "r_mipmaps", "r_data"}
             /\ r_depth' = d
             /\ r_type' = ty
             /\ r_mipmaps' = (mipmaps # 0)
             /\ images' = <<>>
             /\ l_limit' = IF LayeredExt(get_extension(l_path)) THEN d ELSE d + mipmaps
             /\ lpc' = "v4loop"
             /\ UNCHANGED derr
    /\ UNCHANGED <<loader, l_path, l_t, r_width, r_height, flags, l_format, l_code, compression,
                   layer, lflen, lfpos, overflow, r_error, lres, v4_decodes>>
    /\ UNCHANGED <<recogVars, imgVars, ctexVars, ltVars, mergeVars, liVars>>

\* one iteration of the loop of _load_data_ctexlayered_v4: the engine's
\* image reader, the check of its result, the first image's format and size
LayerV4 ==
    /\ lpc = "v4loop" /\ layer < l_limit
    /\ v4_words' = IF layer = 0 THEN v4_words + 1 ELSE v4_words
    /\ v4_decodes' = v4_decodes + 1
    /\ \E o \in CodecOutcomes :
        IF o = NullImage \/ is_empty(o)
        THEN /\ derr' = "ERR_CANT_OPEN"
             /\ lpc' = "decoded"
             /\ v4_written' = IF layer = 0 THEN v4_written \cup {"r_data_format"}
                               ELSE v4_written
             /\ UNCHANGED <<images, layer, l_format, r_width, r_height>>
        ELSE /\ IF layer = 0
                THEN /\ l_format' = o.format /\ r_width' = o.width /\ r_height' = o.height
                     /\ v4_written' = v4_written \cup
                            {"r_data_format", "r_format", "r_width", "r_height"}
                ELSE UNCHANGED <<l_format, r_width, r_height, v4_written>>
             /\ images' = Append(images, o)
             /\ layer' = layer + 1
             /\ UNCHANGED <<derr, lpc>>
    /\ UNCHANGED <<loader, l_path, l_t, r_depth, r_type, r_mipmaps, flags, l_code,
                   compression, l_limit, lflen, lfpos, overflow, r_error, lres,
                   v4_version>>
    /\ UNCHANGED <<recogVars, imgVars, ctexVars, ltVars, mergeVars, liVars>>

\* the loop of _load_data_ctexlayered_v4 is over: return OK
LoadDataCtexlayeredV4Return ==
    /\ lpc = "v4loop" /\ layer >= l_limit
    /\ derr' = "OK"
    /\ lpc' = "decoded"
    /\ UNCHANGED <<loader, l_path, l_t, images, r_width, r_height, r_depth, r_type,
                   r_mipmaps, flags, l_format, l_code, compression, l_limit, layer, lflen, lfpos,
                   overflow, r_error, lres>>
    /\ UNCHANGED <<recogVars, imgVars, v4Vars, ctexVars, ltVars, mergeVars, liVars>>

\* the layered type custom_load hands _set_tex
LayeredTypeOf ==
    IF l_t = "FORMAT_V3_STREAM_TEXTUREARRAY" THEN TEXTURE_LAYERED_2D_ARRAY ELSE r_type

\* custom_load after the decoder: the error stored, the null resource on an
\* error, else _set_tex, which reads images[0] and, in the layered loader,
\* writes through a texture that exists only for a known layered type
CustomLoadReturn ==
    /\ lpc = "decoded"
    /\ r_error' = derr
    /\ lres' = IF derr # "OK" THEN "null"
               ELSE IF Len(images) = 0 THEN "crash"
               ELSE IF loader = "TextureLayered" /\ LayeredTypeOf \notin LayeredTypes
               THEN "crash"
               ELSE "texture"
    /\ lpc' = "done"
    /\ UNCHANGED <<loader, l_path, l_t, images, r_width, r_height, r_depth, r_type,
                   r_mipmaps, flags, l_format, l_code, compression, l_limit, layer, lflen, lfpos,
                   overflow, derr>>
    /\ UNCHANGED <<recogVars, imgVars, v4Vars, ctexVars, ltVars, mergeVars, liVars>>

InitLayered ==
    /\ lpc = "idle"
    /\ loader = "none"
    /\ l_path = <<>>
    /\ l_t = "FORMAT_NOT_TEXTURE"
    /\ images = <<>>
    /\ r_width = 0 /\ r_height = 0 /\ r_depth = 0 /\ r_type = 0
    /\ r_mipmaps = FALSE /\ flags = 0 /\ l_format = "FORMAT_MAX" /\ l_code = 0
    /\ compression = 0 /\ l_limit = 0 /\ layer = 0 /\ lflen = 0 /\ lfpos = 0
    /\ overflow = FALSE
    /\ derr = "NONE" /\ r_error = "NONE" /\ lres = "NONE"

NextLayered ==
    \/ CustomLoadTexture3D
    \/ CustomLoadTextureLayered
    \/ LoadLayeredTextureV3Open
    \/ LayerLossless
    \/ LayerRaw
    \/ LoadLayeredTextureV3Return
    \/ LoadDataCtexlayeredV4Open
    \/ LayerV4
    \/ LoadDataCtexlayeredV4Return
    \/ CustomLoadReturn

(***************************************************************************)
(* load_images_from_layered_tex.                                           *)
(***************************************************************************)

\* TextureLoaderCompat::get_type_enum_from_version_type
get_type_enum_from_version_type(t) ==
    IF t \in {"FORMAT_V2_LARGE_TEXTURE", "FORMAT_V2_CUBEMAP",
              "FORMAT_V3_STREAM_TEXTUREARRAY", "FORMAT_V4_COMPRESSED_TEXTURELAYERED"}
    THEN "TEXTURE_TYPE_LAYERED"
    ELSE IF t \in {"FORMAT_V3_STREAM_TEXTURE3D", "FORMAT_V4_COMPRESSED_TEXTURE3D"}
    THEN "TEXTURE_TYPE_3D"
    ELSE IF t \in {"FORMAT_V2_TEXTURE", "FORMAT_V2_IMAGE_TEXTURE", "FORMAT_V3_IMAGE_TEXTURE",
                   "FORMAT_V3_STREAM_TEXTURE2D", "FORMAT_V4_COMPRESSED_TEXTURE2D",
                   "FORMAT_V4_IMAGE_TEXTURE"}
    THEN "TEXTURE_TYPE_2D"
    ELSE IF t \in {"FORMAT_V2_ATLAS_TEXTURE", "FORMAT_V3_ATLAS_TEXTURE",
                   "FORMAT_V4_ATLAS_TEXTURE"}
    THEN "TEXTURE_TYPE_ATLAS"
    ELSE "TEXTURE_TYPE_UNKNOWN"

\* load_images_from_layered_tex up to its call of a custom_load: recognize,
\* the early return on its error, the dispatch on the texture type
LoadImagesFromLayeredTex ==
    /\ li_pc = "idle" /\ lpc = "idle" /\ ipc = "idle" /\ cpc = "idle"
    /\ \E path \in Paths : \E r \in RecognizeResults(path) :
        LET textype == get_type_enum_from_version_type(r.t)
        IN  IF r.t = "FORMAT_NOT_TEXTURE" /\ r.err # "OK"
            THEN /\ li_err' = r.err
                 /\ li_ret' = "empty"
                 /\ li_pc' = "done"
                 /\ UNCHANGED <<recogVars, imgVars, layVars, v4Vars, ctexVars, ltVars,
                                mergeVars>>
            ELSE IF textype \in {"TEXTURE_TYPE_3D", "TEXTURE_TYPE_LAYERED"}
            THEN /\ li_pc' = "loading"
                 /\ UNCHANGED <<li_err, li_ret>>
                 /\ CustomLoadOn(IF textype = "TEXTURE_TYPE_3D" THEN "Texture3D"
                                 ELSE "TextureLayered", path, r)
            ELSE /\ li_err' = "ERR_INVALID_PARAMETER"
                 /\ li_ret' = "empty"
                 /\ li_pc' = "done"
                 /\ UNCHANGED <<recogVars, imgVars, layVars, v4Vars, ctexVars, ltVars,
                                mergeVars>>

\* after the custom_load: res->get_data() or res->get_layers() on what it
\* returned, with no test of the Ref; then the error stored and the data
LoadImagesReturn ==
    /\ li_pc = "loading" /\ lpc = "done"
    /\ IF lres # "texture"
       THEN /\ li_ret' = "crash"
            /\ UNCHANGED li_err
       ELSE /\ li_ret' = "data"
            /\ li_err' = r_error
    /\ li_pc' = "done"
    /\ UNCHANGED <<recogVars, imgVars, layVars, v4Vars, ctexVars, ltVars, mergeVars>>

InitImages == li_pc = "idle" /\ li_err = "NONE" /\ li_ret = "NONE"

NextImages ==
    \/ LoadImagesFromLayeredTex
    \/ LoadLayeredTextureV3Open
    \/ LayerLossless
    \/ LayerRaw
    \/ LoadLayeredTextureV3Return
    \/ LoadDataCtexlayeredV4Open
    \/ LayerV4
    \/ LoadDataCtexlayeredV4Return
    \/ CustomLoadReturn
    \/ LoadImagesReturn

(***************************************************************************)
(* _load_data_ctex2d_v4 and the custom_load of the 2D loader.              *)
(***************************************************************************)

\* CompressedTexture2D::FORMAT_VERSION
FORMAT_VERSION == 1

\* the value of a local that was never assigned: 0 or anything else
Garbage == {0, Stale}

\* the size-override words of the files
CustomSizes == {0, 2}

\* the data-format words of the version 4 files
V4DataFormats == {0, 1}

NoExtra == [data_format |-> 0, texture_flags |-> 0]

\* the words _load_data_ctex2d_v4 reads between the magic and the body:
\* version, tw_custom, th_custom, r_texture_flags, mipmap_limit and three
\* reserved words
HeaderWords == 8

\* FileAccess::get_position after the four magic bytes and less words by one
get_position_short(words) == 4 + 4 * (words - 1)

\* FileAccess::get_position after the four magic bytes and words calls of
\* get_32
get_position(words) == 4 + 4 * words

\* the 2D locals before a call
CtexUnset ==
    /\ c_limit' = 0 /\ c_pos' = 0 /\ tw_custom' = 0 /\ th_custom' = 0
    /\ r_texture_flags' = 0 /\ r_data_format' = 0
    /\ c_image' = NullImage
    /\ c_err' = "NONE"
    /\ extra' = NoExtra

\* the 2D custom_load up to its call of a decoder: recognize, the early
\* return on FORMAT_NOT_TEXTURE, and the dispatch on the variant
CustomLoadTexture2D ==
    /\ cpc = "idle" /\ ipc = "idle" /\ lpc = "idle"
    /\ CtexUnset /\ V4Unset
    /\ c_caller' = "custom_load"
    /\ c_arg_limit' = 0
    /\ \E path \in Paths : \E r \in RecognizeResults(path) :
        /\ c_t' = r.t
        /\ IF r.t = "FORMAT_NOT_TEXTURE"
           THEN /\ c_r_error' = r.err /\ c_res' = "null"
                /\ cpc' = "done"
           ELSE IF r.t = "FORMAT_V3_STREAM_TEXTURE2D"
           THEN /\ cpc' = "v3"
                /\ c_r_error' = "NONE" /\ c_res' = "NONE"
           ELSE IF r.t = "FORMAT_V4_COMPRESSED_TEXTURE2D"
           THEN /\ cpc' = "v4"
                /\ c_r_error' = "NONE" /\ c_res' = "NONE"
           ELSE /\ c_r_error' = "ERR_INVALID_PARAMETER" /\ c_res' = "null"
                /\ cpc' = "done"
    /\ UNCHANGED <<recogVars, imgVars, layVars, ltVars, mergeVars, liVars>>

\* _load_data_ctex2d_v4 called by other code, with any size limit
CallLoadDataCtex2dV4 ==
    /\ cpc = "idle" /\ ipc = "idle" /\ lpc = "idle"
    /\ CtexUnset /\ V4Unset
    /\ c_caller' = "direct"
    /\ c_t' = "NONE"
    /\ c_r_error' = "NONE" /\ c_res' = "NONE"
    /\ \E limit \in (0 - 1)..MaxLimit : c_arg_limit' = limit
    /\ cpc' = "v4"
    /\ UNCHANGED <<recogVars, imgVars, layVars, ltVars, mergeVars, liVars>>

\* _load_data_ctex2d_v4: the open, whose result is used unchecked; the
\* version word and its test; the header words; the size limit dropped for
\* a file without the stream bit; the data-format word read and the file
\* put back; the engine's image reader; the test of its image; tw and th
LoadDataCtex2dV4 ==
    /\ cpc = "v4"
    /\ \E opened \in BOOLEAN, version \in 0..MaxVersion, twc \in CustomSizes,
          thc \in CustomSizes, fl \in {0, FORMAT_BIT_STREAM}, d \in V4DataFormats,
          o \in CodecOutcomes :
        IF ~opened
        THEN /\ c_err' = "CRASH"
             /\ UNCHANGED <<v4Vars, c_limit, c_pos, tw_custom, th_custom, r_texture_flags,
                            r_data_format, c_image>>
        ELSE IF TooNew(version, FORMAT_VERSION)
        THEN /\ c_err' = "ERR_FILE_CORRUPT"
             /\ v4_version' = version
             /\ v4_words' = 1
             /\ UNCHANGED <<v4_decodes, v4_written, c_limit, c_pos, tw_custom, th_custom,
                            r_texture_flags, r_data_format, c_image>>
        ELSE /\ v4_version' = version
             /\ tw_custom' = twc /\ th_custom' = thc
             /\ r_texture_flags' = fl
             /\ c_limit' = IF ~BitSet(fl, FORMAT_BIT_STREAM) THEN 0 ELSE c_arg_limit
             /\ r_data_format' = d
             /\ v4_words' = HeaderWords + 1
             /\ c_pos' = get_position(HeaderWords)
             /\ v4_decodes' = 1
             /\ c_image' = o
             /\ v4_written' =
                    {"tw_custom", "th_custom", "r_texture_flags", "r_data_format", "image"}
                    \cup (IF o = NullImage \/ is_empty(o) THEN {}
                          ELSE (IF twc = 0 THEN {"tw"} ELSE {})
                               \cup (IF thc = 0 THEN {"th"} ELSE {}))
             /\ c_err' = IF o = NullImage \/ is_empty(o) THEN "ERR_CANT_OPEN" ELSE "OK"
    /\ cpc' = "decoded"
    /\ UNCHANGED <<c_caller, c_t, c_arg_limit, c_r_error, c_res, extra>>
    /\ UNCHANGED <<recogVars, imgVars, layVars, ltVars, mergeVars, liVars>>

\* the Error the decoder handed the 2D custom_load
DecoderError == IF cpc = "v3" THEN ierr ELSE c_err

\* the 2D custom_load after its decoder: the error stored, the null
\* resource on an error, else _set_tex and the two extra entries, taken
\* from locals that only the version 4 decoder assigns
CustomLoad2DReturn ==
    /\ c_caller = "custom_load"
    /\ \/ cpc = "decoded"
       \/ cpc = "v3" /\ ipc = "done"
    /\ IF DecoderError = "CRASH"
       THEN /\ c_res' = "crash"
            /\ UNCHANGED <<c_r_error, extra>>
       ELSE /\ c_r_error' = DecoderError
            /\ IF DecoderError # "OK"
               THEN /\ c_res' = "null"
                    /\ UNCHANGED extra
               ELSE /\ c_res' = "texture"
                    /\ \E g1 \in Garbage, g2 \in Garbage :
                        extra' = IF cpc = "v3"
                                 THEN [data_format |-> g1, texture_flags |-> g2]
                                 ELSE [data_format |-> r_data_format,
                                       texture_flags |-> r_texture_flags]
    /\ cpc' = "done"
    /\ UNCHANGED <<v4Vars, c_caller, c_t, c_arg_limit, c_limit, c_pos, tw_custom,
                   th_custom, r_texture_flags, r_data_format, c_image, c_err>>
    /\ UNCHANGED <<recogVars, imgVars, layVars, ltVars, mergeVars, liVars>>

InitCtex ==
    /\ v4_version = 0 /\ v4_words = 0 /\ v4_decodes = 0 /\ v4_written = {}
    /\ cpc = "idle"
    /\ c_caller = "none"
    /\ c_t = "NONE"
    /\ c_arg_limit = 0 /\ c_limit = 0 /\ c_pos = 0
    /\ tw_custom = 0 /\ th_custom = 0
    /\ r_texture_flags = 0 /\ r_data_format = 0
    /\ c_image = NullImage
    /\ c_err = "NONE" /\ c_r_error = "NONE" /\ c_res = "NONE"
    /\ extra = NoExtra

\* the 2D loader with its two decoders
NextTexture2D ==
    \/ CustomLoadTexture2D
    \/ CallLoadDataCtex2dV4
    \/ LoadDataCtex2dV4
    \/ CustomLoad2DReturn
    \/ NextImage

\* the three loaders
NextLoaders ==
    \/ NextTexture2D
    \/ NextLayered

(***************************************************************************)
(* merge_resource_info and the converters that call it.                    *)
(***************************************************************************)

\* Dictionary::has
has(dict, key) == key \in DOMAIN dict

\* dict[key] = value
Put(dict, key, value) ==
    [k \in DOMAIN dict \cup {key} |-> IF k = key THEN value ELSE dict[k]]

\* the extra dictionaries of the ResourceInfos: each of texture_flags and
\* data_format absent or one of two values
Extras ==
    { [k \in keys |-> IF k = "texture_flags" THEN tfl ELSE dfm] :
        keys \in SUBSET {"texture_flags", "data_format"}, tfl \in {1, 2}, dfm \in {1, 2} }

\* the valid ResourceInfos whose original path is "" or path
Infos(path) ==
    { [valid |-> TRUE, ver_major |-> v, type |-> t, resource_format |-> rf,
       original_path |-> op, extra |-> e] :
        v \in {3, 4}, t \in {"ImageTexture", "CompressedTexture2D"},
        rf \in {"text", "binary"}, op \in {"", path}, e \in Extras }

\* a null Ref<ResourceInfo>
InvalidInfo ==
    [valid |-> FALSE, ver_major |-> 0, type |-> "", resource_format |-> "",
     original_path |-> "", extra |-> << >>]

\* a plausible slip: the new record returned as it came
merge_keeps_new(new, tex, fl) == new

\* merge_resource_info
merge_resource_info(new, tex, fl) ==
    LET e1 == IF has(tex.extra, "texture_flags")
              THEN Put(new.extra, "texture_flags", tex.extra["texture_flags"])
              ELSE Put(new.extra, "texture_flags", fl)
        e2 == IF has(tex.extra, "data_format")
              THEN Put(e1, "data_format", tex.extra["data_format"])
              ELSE e1
    IN  [valid |-> TRUE,
         ver_major |-> tex.ver_major,
         type |-> tex.type,
         resource_format |-> tex.resource_format,
         original_path |-> IF new.original_path = "" THEN tex.original_path
                           ELSE new.original_path,
         extra |-> e2]

\* the flags property of the resource converted
FlagValues == {0, 7}

\* ResourceConverterTexture2D::convert after the load: the loaded texture's
\* ResourceInfo merged with the resource's, when the texture has one
Texture2DMerge ==
    /\ mpc = "idle"
    /\ m_site' = "ResourceConverterTexture2D"
    /\ \E d \in Infos("res://d") \cup {InvalidInfo}, p \in Infos("res://p"),
          fl \in FlagValues :
        /\ new_dict' = d
        /\ texture_dict' = p
        /\ int_flags' = fl
        /\ m_out' = IF d.valid THEN merge_resource_info(d, p, fl) ELSE p
    /\ mpc' = "done"
    /\ UNCHANGED <<recogVars, imgVars, layVars, v4Vars, ctexVars, ltVars, liVars>>

\* ImageTextureConverterCompat::convert after the texture is made: the new
\* ResourceInfo merged with the resource's, when the resource has one
ImageTextureMerge ==
    /\ mpc = "idle"
    /\ m_site' = "ImageTextureConverterCompat"
    /\ \E d \in Infos("res://d"), p \in Infos("res://p") \cup {InvalidInfo},
          fl \in FlagValues :
        /\ new_dict' = d
        /\ texture_dict' = p
        /\ int_flags' = fl
        /\ m_out' = IF p.valid THEN merge_resource_info(d, p, fl) ELSE d
    /\ mpc' = "done"
    /\ UNCHANGED <<recogVars, imgVars, layVars, v4Vars, ctexVars, ltVars, liVars>>

InitMerge ==
    /\ mpc = "idle"
    /\ m_site = "none"
    /\ new_dict = InvalidInfo
    /\ texture_dict = InvalidInfo
    /\ int_flags = 0
    /\ m_out = InvalidInfo

NextMerge ==
    \/ Texture2DMerge
    \/ ImageTextureMerge

(***************************************************************************)
(* LargeTextureConverterCompat::convert.                                   *)
(***************************************************************************)

\* the largest canvas edge
MaxCanvas == 3

\* the largest tile edge of a grid
MaxTile == 2

\* the most tiles of a grid
MaxPieces == 4

Ceil(a, b) == (a + b - 1) \div b

\* a valid texture with an image of the size
TileTexture(w, h) == [valid |-> TRUE, width |-> w, height |-> h]

\* a null Ref<Texture2D>
NullTexture == [valid |-> FALSE, width |-> 0, height |-> 0]

\* the offsets of the uniform grid of t x t tiles on a w x h canvas
GridOffsets(w, h, t) ==
    { <<t * i, t * j>> : i \in 0..(Ceil(w, t) - 1), j \in 0..(Ceil(h, t) - 1) }

\* the grid's tile at an offset, clipped at the right and bottom edges
GridTile(w, h, t, o) ==
    [offset |-> o, texture |-> TileTexture(Min(t, w - o[1]), Min(t, h - o[2]))]

GridTiles(w, h, t) == { GridTile(w, h, t, o) : o \in GridOffsets(w, h, t) }

\* the elements of a set in every order
Orders(S) ==
    { q \in [1..Cardinality(S) -> S] : \A i, j \in 1..Cardinality(S) : q[i] = q[j] => i = j }

\* _data made of tiles of a grid: every subset, in every order
GridInputsOn(w, h, t) ==
    { [data |-> d, whole |-> <<w, h>>] :
        d \in UNION { Orders(S) : S \in SUBSET GridTiles(w, h, t) } }

\* the canvases and tile sizes whose grid has at most MaxPieces tiles
Grids ==
    { g \in (1..MaxCanvas) \X (1..MaxCanvas) \X (1..MaxTile) :
        Ceil(g[1], g[3]) * Ceil(g[2], g[3]) <= MaxPieces }

GridInputs == UNION { GridInputsOn(g[1], g[2], g[3]) : g \in Grids }

\* pairs of _data that follow no grid: offsets off the grid and off the
\* canvas, images with an edge of 0, textures that are null
LoosePairs ==
    { [offset |-> <<x, y>>, texture |-> tx] :
        x \in {0, 1, MaxCanvas + 1}, y \in {0, 2},
        tx \in {NullTexture} \cup { TileTexture(w, h) : w \in {0, 2}, h \in {0, 2} } }

\* _data of at most two such pairs
LooseInputs ==
    { [data |-> d, whole |-> <<w, h>>] :
        d \in {<< >>} \cup { <<a>> : a \in LoosePairs }
                      \cup { <<a, b>> : a \in LoosePairs, b \in LoosePairs },
        w \in 0..MaxCanvas, h \in 0..MaxCanvas }

\* _data of a 10 x 6 canvas with a 4 x 4 tile at (0, 0) and a 2 x 4 tile at
\* (8, 0), in both orders
WideInputs ==
    LET a == [offset |-> <<0, 0>>, texture |-> TileTexture(4, 4)]
        b == [offset |-> <<8, 0>>, texture |-> TileTexture(2, 4)]
    IN  { [data |-> d, whole |-> <<10, 6>>] : d \in {<<a, b>>, <<b, a>>} }

LargeInputs == GridInputs \cup LooseInputs \cup WideInputs

\* the Ref<Image> of a piece; id is the piece's place in _data
PieceImage(w, h, id) == [width |-> w, height |-> h, id |-> id]

\* a null Ref<Image>
NullPieceImage == [width |-> 0, height |-> 0, id |-> 0 - 1]

\* Image::create_empty: a null reference for a width or height below 1
create_empty(w, h) ==
    IF w <= 0 \/ h <= 0 THEN NullPieceImage ELSE [width |-> w, height |-> h, id |-> 0]

\* a plausible slip: the pieces ordered by x
compare_x(a, b) == a.offset[1] < b.offset[1]

\* CustomPieceSort::compare
compare(a, b) ==
    IF a.offset[2] # b.offset[2] THEN a.offset[2] < b.offset[2]
    ELSE a.offset[1] < b.offset[1]

\* SortArray's insertion of one element into a sorted run
RECURSIVE linear_insert(_, _)
linear_insert(run, p) ==
    IF run = << >> THEN <<p>>
    ELSE IF compare(p, run[Len(run)])
    THEN Append(linear_insert(SubSeq(run, 1, Len(run) - 1), p), run[Len(run)])
    ELSE Append(run, p)

\* Vector::sort_custom<CustomPieceSort>: for fewer than 16 elements
\* SortArray is an insertion sort
RECURSIVE sort_custom(_)
sort_custom(q) ==
    IF q = << >> THEN << >>
    ELSE linear_insert(sort_custom(SubSeq(q, 1, Len(q) - 1)), q[Len(q)])

\* the pieces of _data, as the first loop pushes them
PiecesOf(d) ==
    [i \in 1..Len(d) |->
        [offset |-> d[i].offset,
         image |-> PieceImage(d[i].texture.width, d[i].texture.height, i)]]

RECURSIVE MaxOver(_, _)
MaxOver(q, field) ==
    IF q = << >> THEN 0
    ELSE Max(MaxOver(SubSeq(q, 1, Len(q) - 1), field), q[Len(q)].image[field])

\* the ResourceInfo of the resource converted: none, or one of two
LargeInfos ==
    { InvalidInfo,
      [valid |-> TRUE, ver_major |-> 2, type |-> "LargeTexture", resource_format |-> "binary",
       original_path |-> "res://p", extra |-> << >>],
      [valid |-> TRUE, ver_major |-> 3, type |-> "LargeTexture", resource_format |-> "text",
       original_path |-> "", extra |-> [k \in {"texture_flags"} |-> 7]] }

\* convert up to the loop over the sorted pieces: the pieces of _data with
\* the failure on a null texture, the largest piece size, the sort
StartConvert(d, nfo) ==
    /\ lt_data' = d
    /\ info' = nfo
    /\ IF \E i \in 1..Len(d) : ~d[i].texture.valid
       THEN /\ lt_res' = "null"
            /\ ltpc' = "done"
            /\ pieces' = << >>
            /\ max_piece_size' = <<0, 0>>
       ELSE /\ lt_res' = "NONE"
            /\ ltpc' = "loop"
            /\ pieces' = sort_custom(PiecesOf(d))
            /\ max_piece_size' = <<MaxOver(PiecesOf(d), "width"),
                                   MaxOver(PiecesOf(d), "height")>>
    /\ piece_i' = 1
    /\ expected_x' = 0 /\ expected_y' = 0
    /\ offsets' = << >>
    /\ lt_images' = << >>
    /\ lt_more' = 0
    /\ lt_info' = InvalidInfo

\* no first call to compare with
NoOutput == [data |-> << >>, offsets |-> << >>, images |-> << >>]

\* convert called on a LargeTexture
Convert ==
    /\ ltpc = "idle"
    /\ \E in \in LargeInputs, nfo \in LargeInfos :
        /\ whole_size' = in.whole
        /\ StartConvert(in.data, nfo)
    /\ lt_calls' = 1
    /\ lt_prev' = NoOutput
    /\ UNCHANGED <<recogVars, imgVars, layVars, v4Vars, ctexVars, mergeVars, liVars>>

\* the offsets and images a call returned, as the pairs of a _data
OutputData ==
    [k \in 1..Len(lt_images) |->
        [offset |-> offsets[k],
         texture |-> IF lt_images[k] = NullPieceImage THEN NullTexture
                     ELSE TileTexture(lt_images[k].width, lt_images[k].height)]]

\* convert called again, on the offsets and images it returned
ConvertAgain ==
    /\ ltpc = "done" /\ lt_res = "texture" /\ lt_calls = 1
    /\ StartConvert(OutputData, info)
    /\ lt_calls' = 2
    /\ lt_prev' = [data |-> lt_data, offsets |-> offsets, images |-> lt_images]
    /\ UNCHANGED whole_size
    /\ UNCHANGED <<recogVars, imgVars, layVars, v4Vars, ctexVars, mergeVars, liVars>>

\* a plausible slip: the gap not clipped at the canvas edge
GapSize_unclipped == max_piece_size

\* the size of the gap at the cursor
GapSize ==
    <<IF expected_x + max_piece_size[1] > whole_size[1]
      THEN whole_size[1] - expected_x ELSE max_piece_size[1],
      IF expected_y + max_piece_size[2] > whole_size[2]
      THEN whole_size[2] - expected_y ELSE max_piece_size[2]>>

\* the cursor after an image that ends at x
Advance(x) ==
    IF x >= whole_size[1]
    THEN /\ expected_x' = 0
         /\ expected_y' = expected_y + max_piece_size[2]
    ELSE /\ expected_x' = x
         /\ UNCHANGED expected_y

\* the images after which the model stops following a loop: more than any
\* call that returns pushes on these canvases
ImageCap == MaxPieces + MaxCanvas * MaxCanvas

\* the piece of this turn of the loop lies ahead of the cursor
PieceAhead ==
    /\ piece_i <= Len(pieces)
    /\ pieces[piece_i].offset # <<expected_x, expected_y>>

\* one turn of the while loop before a piece: a gap image at the cursor
GapBeforePiece ==
    /\ ltpc = "loop"
    /\ PieceAhead
    /\ Len(lt_images) < ImageCap
    /\ offsets' = Append(offsets, <<expected_x, expected_y>>)
    /\ lt_images' = Append(lt_images, create_empty(GapSize[1], GapSize[2]))
    /\ Advance(expected_x + GapSize[1])
    /\ UNCHANGED <<ltpc, lt_data, whole_size, info, pieces, max_piece_size, piece_i, lt_res,
                   lt_info, lt_calls, lt_prev, lt_more>>
    /\ UNCHANGED <<recogVars, imgVars, layVars, v4Vars, ctexVars, mergeVars, liVars>>

\* the piece at the cursor: its image pushed, the cursor moved by its width
EmitPiece ==
    /\ ltpc = "loop"
    /\ piece_i <= Len(pieces)
    /\ pieces[piece_i].offset = <<expected_x, expected_y>>
    /\ offsets' = Append(offsets, pieces[piece_i].offset)
    /\ lt_images' = Append(lt_images, pieces[piece_i].image)
    /\ Advance(pieces[piece_i].offset[1] + pieces[piece_i].image.width)
    /\ piece_i' = piece_i + 1
    /\ UNCHANGED <<ltpc, lt_data, whole_size, info, pieces, max_piece_size, lt_res, lt_info,
                   lt_calls, lt_prev, lt_more>>
    /\ UNCHANGED <<recogVars, imgVars, layVars, v4Vars, ctexVars, mergeVars, liVars>>

\* images[0] is read: the list is empty or its first image is null
NoFirstImage == lt_images = << >> \/ lt_images[1] = NullPieceImage

\* one turn of the while loop after the pieces: a gap image with the
\* format of images[0]
GapAfterPieces ==
    /\ ltpc = "loop"
    /\ piece_i > Len(pieces)
    /\ expected_y < whole_size[2]
    /\ Len(lt_images) < ImageCap
    /\ offsets' = Append(offsets, <<expected_x, expected_y>>)
    /\ IF NoFirstImage
       THEN /\ lt_res' = "crash"
            /\ ltpc' = "done"
            /\ UNCHANGED <<lt_images, expected_x, expected_y>>
       ELSE /\ lt_images' = Append(lt_images, create_empty(GapSize[1], GapSize[2]))
            /\ Advance(expected_x + GapSize[1])
            /\ UNCHANGED <<lt_res, ltpc>>
    /\ UNCHANGED <<lt_data, whole_size, info, pieces, max_piece_size, piece_i, lt_info,
                   lt_calls, lt_prev, lt_more>>
    /\ UNCHANGED <<recogVars, imgVars, layVars, v4Vars, ctexVars, mergeVars, liVars>>

\* the cursor is below the canvas and below every piece: a larger
\* expected_y gives every comparison of the loops the same answer
CursorBeyond ==
    /\ expected_y > whole_size[2]
    /\ \A k \in 1..Len(pieces) : pieces[k].offset[2] < expected_y

\* one turn of either loop past the cap: the image pushed is counted, not
\* kept, and expected_y is not followed further once the cursor is beyond
StillRunning ==
    /\ ltpc \in {"loop", "running"}
    /\ PieceAhead \/ (piece_i > Len(pieces) /\ expected_y < whole_size[2])
    /\ Len(lt_images) >= ImageCap
    /\ ltpc' = "running"
    /\ lt_more' = 1 - lt_more
    /\ IF expected_x + GapSize[1] >= whole_size[1]
       THEN /\ expected_x' = 0
            /\ expected_y' = IF CursorBeyond THEN expected_y
                             ELSE expected_y + max_piece_size[2]
       ELSE /\ expected_x' = expected_x + GapSize[1]
            /\ UNCHANGED expected_y
    /\ UNCHANGED <<lt_data, whole_size, info, pieces, max_piece_size, piece_i, offsets,
                   lt_images, lt_res, lt_info, lt_calls, lt_prev>>
    /\ UNCHANGED <<recogVars, imgVars, layVars, v4Vars, ctexVars, mergeVars, liVars>>

\* _get_resource_info(res->get_path(), FORMAT_V2_LARGE_TEXTURE) with the
\* two extra entries
NewInfo ==
    [valid |-> TRUE, ver_major |-> 2, type |-> "LargeTexture", resource_format |-> "Texture",
     original_path |-> "res://l",
     extra |-> [k \in {"offsets", "whole_size"} |->
                    IF k = "offsets" THEN offsets ELSE whole_size]]

\* after the loops: _set_tex, which reads images[0], the new ResourceInfo
\* merged with the resource's when it has one
ConvertReturn ==
    /\ ltpc = "loop"
    /\ piece_i > Len(pieces)
    /\ expected_y >= whole_size[2]
    /\ IF NoFirstImage
       THEN /\ lt_res' = "crash"
            /\ UNCHANGED lt_info
       ELSE /\ lt_res' = "texture"
            /\ lt_info' = IF info.valid THEN merge_resource_info(NewInfo, info, 0)
                          ELSE NewInfo
    /\ ltpc' = "done"
    /\ UNCHANGED <<lt_data, whole_size, info, pieces, max_piece_size, piece_i, expected_x,
                   expected_y, offsets, lt_images, lt_calls, lt_prev, lt_more>>
    /\ UNCHANGED <<recogVars, imgVars, layVars, v4Vars, ctexVars, mergeVars, liVars>>

InitLarge ==
    /\ ltpc = "idle"
    /\ lt_data = << >>
    /\ whole_size = <<0, 0>>
    /\ info = InvalidInfo
    /\ pieces = << >>
    /\ max_piece_size = <<0, 0>>
    /\ piece_i = 1
    /\ expected_x = 0 /\ expected_y = 0
    /\ offsets = << >>
    /\ lt_images = << >>
    /\ lt_res = "NONE"
    /\ lt_info = InvalidInfo
    /\ lt_calls = 0
    /\ lt_prev = NoOutput
    /\ lt_more = 0

NextLarge ==
    \/ Convert
    \/ GapBeforePiece
    \/ EmitPiece
    \/ GapAfterPieces
    \/ StillRunning
    \/ ConvertReturn

NextLargeTwice ==
    \/ NextLarge
    \/ ConvertAgain

\* the steps of a call of convert after its entry
ConvertSteps ==
    \/ GapBeforePiece
    \/ EmitPiece
    \/ GapAfterPieces
    \/ StillRunning
    \/ ConvertReturn

Init ==
    /\ InitRecognize /\ InitImage /\ InitLayered /\ InitCtex /\ InitLarge /\ InitMerge
    /\ InitImages

SpecRecognize == Init /\ [][NextRecognize]_vars

SpecImage == Init /\ [][NextImage]_vars

SpecImageTwice == Init /\ [][NextImageTwice]_vars

SpecLayered == Init /\ [][NextLayered]_vars

SpecLoaders == Init /\ [][NextLoaders]_vars

SpecImages == Init /\ [][NextImages]_vars

SpecLarge == Init /\ [][NextLarge]_vars

SpecLargeTwice == Init /\ [][NextLargeTwice]_vars

SpecMerge == Init /\ [][NextMerge]_vars

\* a call of convert runs on: a step of it that can be taken is taken
SpecLargeLive == Init /\ [][NextLarge]_vars /\ WF_vars(ConvertSteps)

(***************************************************************************)
(* Claims about recognize.                                                 *)
(***************************************************************************)
\* upper-case letters that occur in the paths, with their lower-case forms
Lower ==
    [c \in {"A", "B", "C", "E", "U"} |->
        CASE c = "A" -> "a" [] c = "B" -> "b" [] c = "C" -> "c"
          [] c = "E" -> "e" [] OTHER -> "u"]

\* String::to_lower, on the letters of Paths
to_lower(s) == [i \in DOMAIN s |-> IF s[i] \in DOMAIN Lower THEN Lower[s[i]] ELSE s[i]]

\* recognize returned after reading all 4 magic bytes from the file
ReturnedOn(h) == rpc = "done" /\ f = "open" /\ bytesRead = 4 /\ header = h

\* C1: the magics GDST, GD3T, GDAT and GST2 map to their variant for every
\* path, the probe is not called and the reported error is OK.
C1_DirectMagics ==
    /\ ReturnedOn(<<"G", "D", "S", "T">>) =>
            ret = "FORMAT_V3_STREAM_TEXTURE2D" /\ probeCalls = 0 /\ r_err = "OK"
    /\ ReturnedOn(<<"G", "D", "3", "T">>) =>
            ret = "FORMAT_V3_STREAM_TEXTURE3D" /\ probeCalls = 0 /\ r_err = "OK"
    /\ ReturnedOn(<<"G", "D", "A", "T">>) =>
            ret = "FORMAT_V3_STREAM_TEXTUREARRAY" /\ probeCalls = 0 /\ r_err = "OK"
    /\ ReturnedOn(<<"G", "S", "T", "2">>) =>
            ret = "FORMAT_V4_COMPRESSED_TEXTURE2D" /\ probeCalls = 0 /\ r_err = "OK"

\* C1 witness: a GDAT file named with a layered extension was classified
C1_Witness ==
    /\ ReturnedOn(<<"G", "D", "A", "T">>)
    /\ get_extension(p_path) = ext_ccube
    /\ ret = "FORMAT_V3_STREAM_TEXTUREARRAY"

\* C2, as claimed: for a GSTL file the layered variant is returned exactly
\* when the extension matches ctexarray, ccube or ccubearray without regard
\* to case, and the 3D variant otherwise.
C2_CaseInsensitiveExtension ==
    ReturnedOn(<<"G", "S", "T", "L">>) =>
        ret = IF to_lower(get_extension(p_path)) \in
                    {ext_ctexarray, ext_ccube, ext_ccubearray}
              THEN "FORMAT_V4_COMPRESSED_TEXTURELAYERED"
              ELSE "FORMAT_V4_COMPRESSED_TEXTURE3D"

\* the probe was asked and recognize went on to the lookup
ProbedAtlas(v) ==
    /\ rpc = "done"
    /\ probeCalls = 1
    /\ probe_err \in {"OK", "ERR_PRINTER_ON_FIRE"}
    /\ i_info = [type |-> "AtlasTexture", ver_major |-> v]

\* C3, as amended: an AtlasTexture of major version 1 or 2 is the v2 atlas
\* variant, of version 3 the v3 variant, and of every other version, 0 and
\* the negative ones included, the v4 variant.
C3_AtlasByVersion ==
    \A v \in ProbeVersions :
        ProbedAtlas(v) =>
            ret = IF v \in {1, 2} THEN "FORMAT_V2_ATLAS_TEXTURE"
                  ELSE IF v = 3 THEN "FORMAT_V3_ATLAS_TEXTURE"
                  ELSE "FORMAT_V4_ATLAS_TEXTURE"

\* C3 witness: an AtlasTexture of major version 0 was classified as v4
C3_Witness == ProbedAtlas(0) /\ ret = "FORMAT_V4_ATLAS_TEXTURE" /\ r_err = "OK"

\* C3, as claimed: every major version <= 2, 0 and negative ones included,
\* gives the v2 atlas variant.
C3_AtlasLe2 ==
    \A v \in ProbeVersions :
        ProbedAtlas(v) =>
            ret = IF v <= 2 THEN "FORMAT_V2_ATLAS_TEXTURE"
                  ELSE IF v = 3 THEN "FORMAT_V3_ATLAS_TEXTURE"
                  ELSE "FORMAT_V4_ATLAS_TEXTURE"

\* C4: after the probe reports ERR_PRINTER_ON_FIRE the result is the one the
\* lookup gives for the probed type and version, with error OK for a texture;
\* after any other non-OK probe error the result is the sentinel and the
\* reported error is the probe's own.
C4_ProbeErrors ==
    (rpc = "done" /\ probeCalls = 1) =>
        /\ probe_err = "ERR_PRINTER_ON_FIRE" =>
              LET t == TypeTable(i_info.type, i_info.ver_major)
              IN  IF t = "NONE"
                  THEN ret = "FORMAT_NOT_TEXTURE" /\ r_err = "ERR_FILE_UNRECOGNIZED"
                  ELSE ret = t /\ r_err = "OK"
        /\ probe_err \notin {"OK", "ERR_PRINTER_ON_FIRE"} =>
              ret = "FORMAT_NOT_TEXTURE" /\ r_err = probe_err

\* C4 witness: the probe reported missing metadata for a CubeMap
C4_Witness ==
    /\ rpc = "done"
    /\ probe_err = "ERR_PRINTER_ON_FIRE"
    /\ i_info.type = "CubeMap"
    /\ ret = "FORMAT_V2_CUBEMAP"
    /\ r_err = "OK"

DirectMagics ==
    { <<"G", "D", "S", "T">>, <<"G", "D", "3", "T">>, <<"G", "D", "A", "T">>,
      <<"G", "S", "T", "L">>, <<"G", "S", "T", "2">> }

BinaryMagics == { <<"R", "S", "R", "C">>, <<"R", "S", "C", "C">> }

KnownTypes == {"Texture", "ImageTexture", "AtlasTexture", "LargeTexture", "CubeMap"}

\* C5, as claimed: an unopenable file or a read of fewer than 4 bytes gives
\* the sentinel with a non-OK error other than ERR_FILE_UNRECOGNIZED; 4 bytes
\* that are no known magic (or a probed type outside the table) give the
\* sentinel with ERR_FILE_UNRECOGNIZED; every other return leaves the error OK.
C5_SentinelErrors ==
    rpc = "done" =>
        /\ (f = "null" \/ bytesRead < 4) =>
              /\ ret = "FORMAT_NOT_TEXTURE"
              /\ r_err \notin {"OK", "ERR_FILE_UNRECOGNIZED"}
        /\ (f = "open" /\ bytesRead = 4 /\ header \notin DirectMagics \cup BinaryMagics) =>
              ret = "FORMAT_NOT_TEXTURE" /\ r_err = "ERR_FILE_UNRECOGNIZED"
        /\ (f = "open" /\ bytesRead = 4 /\ header \in BinaryMagics
                /\ probe_err \in {"OK", "ERR_PRINTER_ON_FIRE"}
                /\ i_info.type \notin KnownTypes) =>
              ret = "FORMAT_NOT_TEXTURE" /\ r_err = "ERR_FILE_UNRECOGNIZED"
        /\ ret # "FORMAT_NOT_TEXTURE" => r_err = "OK"

(***************************************************************************)
(* Claims about load_image_from_fileV3 and _load_data_stex2d_v3.           *)
(***************************************************************************)
\* the call went through the raw mipmapped branch and returned
MipmapsReturned == ipc = "done" /\ branch = "raw_mipmaps"

\* C7, as claimed: in the raw mipmapped branch a read that delivers fewer
\* bytes than asked is zero-filled and the call returns OK with an image.
C7_ShortfallTolerated ==
    (MipmapsReturned /\ tw > 0 /\ th > 0 /\ bytes < expected) =>
        /\ ierr = "OK"
        /\ ~is_empty(image)
        /\ Len(image.data) = expected
        /\ \A i \in (bytes + 1)..expected : image.data[i] = 0

\* C8, as claimed: a raw read without mipmaps that delivers fewer bytes than
\* the size formula demands returns ERR_FILE_CORRUPT and no image.
C8_ShortReadIsCorrupt ==
    (ipc = "done" /\ branch = "raw" /\ bytes < expected) =>
        ierr = "ERR_FILE_CORRUPT" /\ is_empty(image)

\* the width and height of level k of the file's image
LevelW(k) == Max(tw \div (2 ^ k), 1)

LevelH(k) == Max(th \div (2 ^ k), 1)

\* the number of levels the policy skips under limit: none without a limit,
\* else the least k that leaves one level to drop or fits both edges
ExpectedSkip(limit, n) ==
    IF limit <= 0 THEN 0
    ELSE LET Stops(k) == k = n - 1 \/ (LevelW(k) <= limit /\ LevelH(k) <= limit)
         IN  CHOOSE k \in 0..Max(n - 1, 0) : Stops(k) /\ \A j \in 0..(k - 1) : ~Stops(j)

\* the format and required mipmap count of the file of the current call
CallFormat == convert_image_format_enum_v3_to_v4(ImageFormatOf(df))

CallMipmaps == get_image_required_mipmaps(tw, th, CallFormat)

\* C9: in the raw mipmapped branch skipped + remaining = n throughout the
\* loop; on return the levels skipped are 0 without a limit and else the
\* least k with k = n - 1 or both edges of level k within the limit; the
\* seek is by the mipmap offset of level k, the read asks for total_size
\* minus that offset, and a returned image has the size of level k.
C9_SkipPolicy ==
    /\ (ipc = "skip" \/ MipmapsReturned) => idx + mipmaps2 = CallMipmaps
    /\ MipmapsReturned =>
        /\ idx = ExpectedSkip(p_size_limit, CallMipmaps)
        /\ ofs = get_image_mipmap_offset(tw, th, CallFormat, idx)
        /\ expected = get_image_data_size(tw, th, CallFormat, TRUE) - ofs
        /\ ierr = "OK" =>
            /\ image.width = LevelW(idx)
            /\ image.height = LevelH(idx)
            /\ image.mipmaps

\* C9 witness: an 8 x 8 file read under limit 4 skipped one of its three
\* droppable levels and returned the 4 x 4 image
C9_Witness ==
    /\ MipmapsReturned
    /\ tw = 8 /\ th = 8 /\ p_size_limit = 4
    /\ idx = 1 /\ mipmaps2 = 2
    /\ ierr = "OK"
    /\ image.width = 4 /\ image.height = 4

\* C10, as claimed: _load_data_stex2d_v3 called with a limit L > 0 on a raw
\* mipmapped file wider or taller than L skips levels by the policy, and
\* the image it returns is smaller than the file's full size.
C10_Stex2dHonoursLimit ==
    (MipmapsReturned /\ entry = "_load_data_stex2d_v3" /\ ierr = "OK"
        /\ arg_limit > 0 /\ (tw > arg_limit \/ th > arg_limit) /\ CallMipmaps > 1) =>
        /\ idx = ExpectedSkip(arg_limit, CallMipmaps)
        /\ image.width < tw \/ image.height < th

(***************************************************************************)
(* Claims about the layered decoders and their loaders.                    *)
(***************************************************************************)

\* a decoder has returned an error
DecoderFailed == lpc \in {"decoded", "done"} /\ derr \notin {"NONE", "OK"}

\* C6: when _load_layered_texture_v3 or _load_data_ctexlayered_v4 returns an
\* error after it decoded at least one layer, the caller's image list holds
\* none of the layers of that call; and a custom_load that fails returns a
\* null resource.
C6_NoPartialResult ==
    /\ (DecoderFailed /\ layer >= 1) => Len(images) = 0
    /\ (lpc = "done" /\ r_error \notin {"NONE", "OK"}) => lres = "null"

(***************************************************************************)
(* Claims about two calls of load_image_from_fileV3 on one file.           *)
(***************************************************************************)

\* both calls on the raw mipmapped file returned an image
BothReturned ==
    /\ ipc = "done" /\ calls = 2 /\ branch = "raw_mipmaps"
    /\ ierr = "OK" /\ prev.ierr = "OK"

\* a returned image of a file with a mipmap chain
ChainReturned == ipc = "done" /\ branch \in {"raw_mipmaps", "embedded"} /\ ierr = "OK"

NoLarger(a, b) == a.width <= b.width /\ a.height <= b.height

\* C11, as claimed: of two positive limits the larger never gives the wider
\* or taller image, and no returned image exceeds the header's size.
C11_LargerLimitNoLarger ==
    /\ (BothReturned /\ 0 < prev.limit /\ prev.limit < p_size_limit) =>
          NoLarger(image, prev.image)
    /\ (BothReturned /\ 0 < p_size_limit /\ p_size_limit < prev.limit) =>
          NoLarger(prev.image, image)
    /\ ChainReturned => (image.width <= tw /\ image.height <= th)

\* C11: on a raw mipmapped file, of two positive limits the smaller never
\* gives the wider or taller image, and no returned image exceeds the
\* header's size, a header edge of 0 counting as 1; on a PNG / WebP file the returned image is the one decoded
\* image when one is left, and else has the header's size.
C11_SmallerLimitNoLarger ==
    /\ (BothReturned /\ 0 < prev.limit /\ prev.limit < p_size_limit) =>
          NoLarger(prev.image, image)
    /\ (BothReturned /\ 0 < p_size_limit /\ p_size_limit < prev.limit) =>
          NoLarger(image, prev.image)
    /\ (MipmapsReturned /\ ierr = "OK") =>
          (image.width <= Max(tw, 1) /\ image.height <= Max(th, 1))
    /\ (ipc = "done" /\ branch = "embedded" /\ ierr = "OK") =>
          \/ Len(mipmap_images) = 1 /\ image = mipmap_images[1]
          \/ Len(mipmap_images) > 1 /\ image.width = tw /\ image.height = th

\* C11 witness: an 8 x 8 file gave 2 x 2 under limit 2 and then 4 x 4 under
\* limit 4
C11_Witness ==
    /\ BothReturned
    /\ tw = 8 /\ th = 8
    /\ prev.limit = 2 /\ prev.image.width = 2 /\ prev.image.height = 2
    /\ p_size_limit = 4 /\ image.width = 4 /\ image.height = 4

(***************************************************************************)
(* Claims about the bytes of a raw image.                                  *)
(***************************************************************************)

\* the body B of n bytes, byte i of the file being the number i
Body(n) == [i \in 1..n |-> i]

\* B without its first o bytes
Suffix(B, o) == SubSeq(B, o + 1, Len(B))

\* the size the formula gives for the file of the current call
CallSize ==
    get_image_data_size(tw, th, CallFormat, BitSet(df, FORMAT_BIT_HAS_MIPMAPS))

\* a raw call returned on a file of positive size whose body is exactly B
RawExact ==
    /\ ipc = "done" /\ calls = 1 /\ branch \in {"raw", "raw_mipmaps"}
    /\ tw > 0 /\ th > 0
    /\ flen = CallSize

\* C12: a raw file of positive width and height whose body B has exactly the
\* formula's size decodes to an image whose buffer is B when no level is
\* skipped, and else the suffix of B from the mipmap offset of the first
\* level kept.
C12_RawRoundTrip ==
    RawExact =>
        /\ ierr = "OK"
        /\ branch = "raw" => image.data = Body(CallSize)
        /\ branch = "raw_mipmaps" =>
              /\ idx = ExpectedSkip(p_size_limit, CallMipmaps)
              /\ image.data =
                    Suffix(Body(CallSize), get_image_mipmap_offset(tw, th, CallFormat, idx))

\* C12 witness: an 8 x 8 L8 file under limit 4 returned the 21 bytes that
\* follow the 64 of the first level
C12_Witness ==
    /\ RawExact /\ branch = "raw_mipmaps"
    /\ tw = 8 /\ th = 8 /\ p_size_limit = 4 /\ CallFormat = "FORMAT_L8"
    /\ idx = 1 /\ ofs = 64
    /\ ierr = "OK"
    /\ image.data = [i \in 1..21 |-> 64 + i]

\* _load_data_ctex2d_v4 returned after a version word above the maximum
TooNew2D == cpc \in {"decoded", "done"} /\ v4_version > FORMAT_VERSION

\* _load_data_ctexlayered_v4 returned after a version word above the maximum
TooNewLayered == lpc \in {"decoded", "done"} /\ v4_version > LAYERED_FORMAT_VERSION

\* C13: in both version 4 decoders a version word above the maximum makes
\* the call return an error with the version word the last word read, no
\* image decoded and no output parameter written.
C13_TooNewStopsAtOnce ==
    /\ TooNew2D =>
          /\ c_err \notin {"OK", "NONE", "CRASH"}
          /\ v4_words = 1 /\ v4_decodes = 0 /\ v4_written = {}
          /\ c_image = NullImage
          /\ tw_custom = 0 /\ th_custom = 0
          /\ r_texture_flags = 0 /\ r_data_format = 0
    /\ TooNewLayered =>
          /\ derr \notin {"OK", "NONE", "CRASH"}
          /\ v4_words = 1 /\ v4_decodes = 0 /\ v4_written = {}
          /\ images = <<>>

\* C13 witness: the 2D decoder, called with a size limit, returned its
\* error on a file of version 2 after one word
C13_Witness ==
    /\ TooNew2D /\ cpc = "decoded" /\ c_caller = "direct"
    /\ v4_version = 2
    /\ c_err = "ERR_FILE_CORRUPT"
    /\ v4_words = 1

\* C14: a version 4 file whose version word is the maximum plus one fails
\* on each decoder with an error other than ERR_FILE_CORRUPT, the error of
\* a structurally invalid file.
C14_TooNewIsNotCorrupt ==
    /\ (TooNew2D /\ v4_version = FORMAT_VERSION + 1) =>
          c_err \notin {"OK", "ERR_FILE_CORRUPT"}
    /\ (TooNewLayered /\ v4_version = LAYERED_FORMAT_VERSION + 1) =>
          derr \notin {"OK", "ERR_FILE_CORRUPT"}

\* the two stream variants each loader decodes
Decodes(ld) ==
    IF ld = "Texture2D"
    THEN {"FORMAT_V3_STREAM_TEXTURE2D", "FORMAT_V4_COMPRESSED_TEXTURE2D"}
    ELSE IF ld = "Texture3D"
    THEN {"FORMAT_V3_STREAM_TEXTURE3D", "FORMAT_V4_COMPRESSED_TEXTURE3D"}
    ELSE {"FORMAT_V3_STREAM_TEXTUREARRAY", "FORMAT_V4_COMPRESSED_TEXTURELAYERED"}

\* the 2D custom_load was given a variant that is not one of its two
OtherShape2D ==
    /\ cpc # "idle" /\ c_caller = "custom_load"
    /\ c_t \notin Decodes("Texture2D") \cup {"FORMAT_NOT_TEXTURE"}

\* a 3D or layered custom_load was given a variant that is not one of its two
OtherShapeLayered ==
    /\ lpc # "idle"
    /\ l_t \notin Decodes(loader) \cup {"FORMAT_NOT_TEXTURE"}

\* C19: each custom_load, given a file of a variant other than its two
\* stream variants, returns a null resource with ERR_INVALID_PARAMETER and
\* calls no decoder.
C19_OtherShapeRejected ==
    /\ OtherShape2D =>
          /\ cpc = "done" /\ c_res = "null" /\ c_r_error = "ERR_INVALID_PARAMETER"
          /\ ipc = "idle" /\ c_err = "NONE"
          /\ v4_words = 0 /\ v4_decodes = 0
    /\ OtherShapeLayered =>
          /\ lpc = "done" /\ lres = "null" /\ r_error = "ERR_INVALID_PARAMETER"
          /\ derr = "NONE" /\ images = <<>>
          /\ v4_words = 0 /\ v4_decodes = 0

\* C19 witness: the layered loader returned null on a version 4 3D file
C19_Witness ==
    /\ OtherShapeLayered /\ loader = "TextureLayered"
    /\ l_t = "FORMAT_V4_COMPRESSED_TEXTURE3D"
    /\ lres = "null" /\ r_error = "ERR_INVALID_PARAMETER"

\* _load_layered_texture_v3 returned on a format code without a translation
LayeredFormatFailed ==
    /\ lpc \in {"decoded", "done"} /\ l_t = V3Variant(loader)
    /\ derr \notin {"NONE"} \cup OpenErrors
    /\ convert_image_format_enum_v3_to_v4(l_code) = "FORMAT_MAX"

\* C20: _load_layered_texture_v3 fails with ERR_UNAVAILABLE on a format
\* code of a deprecated version 3 format and with ERR_FILE_CORRUPT on a code
\* that is no version 3 format.
C20_DeprecatedIsUnavailable ==
    LayeredFormatFailed =>
        IF l_code > 0 /\ l_code < V3_FORMAT_MAX
        THEN derr = "ERR_UNAVAILABLE"
        ELSE derr = "ERR_FILE_CORRUPT"

\* the offsets of the grid in row-major order
GridSeq(w, h, t) ==
    [k \in 1..(Ceil(w, t) * Ceil(h, t)) |->
        <<t * ((k - 1) % Ceil(w, t)), t * ((k - 1) \div Ceil(w, t))>>]

\* _data holds tiles of the t x t grid of the canvas
OfGrid(t) ==
    /\ whole_size[1] > 0 /\ whole_size[2] > 0
    /\ \A i \in 1..Len(lt_data) :
          lt_data[i] \in GridTiles(whole_size[1], whole_size[2], t)
    /\ \A i, j \in 1..Len(lt_data) : lt_data[i] = lt_data[j] => i = j

\* the call is over or past following
Converted == ltpc \in {"done", "running"}

\* the image the grid position o is to hold: the tile supplied for it, or
\* a blank of the clipped size
GridImage(t, o) ==
    IF \E i \in 1..Len(lt_data) : lt_data[i].offset = o
    THEN LET i == CHOOSE i \in 1..Len(lt_data) : lt_data[i].offset = o
         IN  PieceImage(lt_data[i].texture.width, lt_data[i].texture.height, i)
    ELSE PieceImage(Min(t, whole_size[1] - o[1]), Min(t, whole_size[2] - o[2]), 0)

\* the call returned a texture whose images are the grid's, in row-major
\* order, real where supplied and blank elsewhere
Covered(t) ==
    LET grid == GridSeq(whole_size[1], whole_size[2], t)
    IN  /\ lt_res = "texture"
        /\ Len(lt_images) = Len(grid)
        /\ offsets = grid
        /\ \A k \in 1..Len(grid) :
              k <= Len(lt_images) => lt_images[k] = GridImage(t, grid[k])

\* C15: given a strict subset of the tiles of the uniform t x t grid of a
\* w x h canvas, convert returns ceil(w/t) * ceil(h/t) images, each supplied
\* tile at its grid position and a blank of the clipped size at each other.
C15_SubsetCoverage ==
    \A t \in 1..MaxTile :
        ( /\ Converted
          /\ OfGrid(t)
          /\ Len(lt_data) < Cardinality(GridTiles(whole_size[1], whole_size[2], t)) )
        => Covered(t)

\* offset a comes before offset b: lower, or as low and further left
Before(a, b) == a[2] < b[2] \/ (a[2] = b[2] /\ a[1] < b[1])

\* _data holds every tile of the t x t grid of the canvas, in some order
CompleteGrid(t) ==
    /\ OfGrid(t)
    /\ Len(lt_data) = Cardinality(GridTiles(whole_size[1], whole_size[2], t))

\* the images returned are the tiles of _data, each once and none blank, in
\* ascending order of their offsets
SortedInput ==
    /\ lt_res = "texture"
    /\ Len(lt_images) = Len(lt_data)
    /\ Len(offsets) = Len(lt_data)
    /\ \A k \in 1..Len(lt_images) :
          \E i \in 1..Len(lt_data) :
              /\ offsets[k] = lt_data[i].offset
              /\ lt_images[k] =
                    PieceImage(lt_data[i].texture.width, lt_data[i].texture.height, i)
    /\ \A k \in 1..(Len(offsets) - 1) : Before(offsets[k], offsets[k + 1])

\* the second call returned what the first returned: its k-th image is the
\* k-th pair it was given
SameAgain ==
    /\ offsets = lt_prev.offsets
    /\ Len(lt_images) = Len(lt_prev.images)
    /\ \A k \in 1..Len(lt_images) :
          lt_images[k] = PieceImage(lt_prev.images[k].width, lt_prev.images[k].height, k)

\* C16: given every tile of the grid in any order, convert returns the
\* tiles sorted by (y, x) with no blank, and convert called on the offsets
\* and images returned returns the same sequence.
C16_CompleteSetSorted ==
    \A t \in 1..MaxTile :
        (Converted /\ CompleteGrid(t)) =>
            /\ SortedInput
            /\ lt_calls = 2 => SameAgain

\* C16 witness: the four tiles of the 2 x 2 grid of a 3 x 3 canvas, given
\* with the last tile first, came back sorted from both calls
C16_Witness ==
    /\ ltpc = "done" /\ lt_calls = 2 /\ lt_res = "texture"
    /\ whole_size = <<3, 3>> /\ CompleteGrid(2)
    /\ Len(lt_prev.data) = 4 /\ lt_prev.data[1].offset = <<2, 2>>
    /\ offsets = <<<<0, 0>>, <<2, 0>>, <<0, 2>>, <<2, 2>>>>
    /\ SameAgain

\* a pair of _data whose image has an edge of 0 or whose offset lies
\* outside the canvas
Malformed(pair) ==
    /\ pair.texture.valid
    /\ \/ pair.texture.width = 0
       \/ pair.texture.height = 0
       \/ pair.offset[1] \notin 0..(whole_size[1] - 1)
       \/ pair.offset[2] \notin 0..(whole_size[2] - 1)

\* C17: when a tile of _data has an image with an edge of 0 or an offset
\* outside the canvas, convert returns no texture.
C17_MalformedTileAborts ==
    (Converted /\ lt_calls = 1 /\ \E i \in 1..Len(lt_data) : Malformed(lt_data[i]))
        => lt_res = "null"

\* merge_resource_info was called: both records are valid
Merged == mpc = "done" /\ new_dict.valid /\ texture_dict.valid

\* the original path of the merged record: the new record's unless empty
MergedPath ==
    m_out.original_path =
        IF new_dict.original_path # "" THEN new_dict.original_path
        ELSE texture_dict.original_path

\* C18 as stated: the merged record has the version and type of the record
\* made by the decoding (the first argument), that record's original path
\* unless empty, and that record's texture_flags and data_format where it
\* has them.
C18_DecodedWins ==
    Merged =>
        /\ m_out.ver_major = new_dict.ver_major
        /\ m_out.type = new_dict.type
        /\ MergedPath
        /\ \A k \in {"texture_flags", "data_format"} :
              has(new_dict.extra, k) =>
                  has(m_out.extra, k) /\ m_out.extra[k] = new_dict.extra[k]

\* C18: the merged record has the version, type and resource format of
\* the resource's record (the second argument) and the new record's
\* original path unless empty; its texture_flags is the resource's, or
\* the flags argument when the resource's record has none; its data_format
\* is the resource's, or the new record's when the resource's has none.
C18_ResourceWins ==
    Merged =>
        /\ m_out.ver_major = texture_dict.ver_major
        /\ m_out.type = texture_dict.type
        /\ m_out.resource_format = texture_dict.resource_format
        /\ MergedPath
        /\ has(m_out.extra, "texture_flags")
        /\ m_out.extra["texture_flags"] =
              IF has(texture_dict.extra, "texture_flags")
              THEN texture_dict.extra["texture_flags"] ELSE int_flags
        /\ IF has(texture_dict.extra, "data_format")
           THEN /\ has(m_out.extra, "data_format")
                /\ m_out.extra["data_format"] = texture_dict.extra["data_format"]
           ELSE IF has(new_dict.extra, "data_format")
           THEN /\ has(m_out.extra, "data_format")
                /\ m_out.extra["data_format"] = new_dict.extra["data_format"]
           ELSE ~has(m_out.extra, "data_format")

\* C18 witness: a version 4 record with texture_flags 1 and a path, merged
\* with a version 3 record with texture_flags 2, gave version 3 and
\* texture_flags 2 and kept the path
C18_Witness ==
    /\ Merged
    /\ new_dict.ver_major = 4 /\ texture_dict.ver_major = 3
    /\ new_dict.type # texture_dict.type
    /\ new_dict.original_path = "res://d" /\ texture_dict.original_path = "res://p"
    /\ has(new_dict.extra, "texture_flags") /\ new_dict.extra["texture_flags"] = 1
    /\ has(texture_dict.extra, "texture_flags") /\ texture_dict.extra["texture_flags"] = 2
    /\ m_out.ver_major = 3
    /\ m_out.extra["texture_flags"] = 2
    /\ m_out.original_path = "res://d"

\* a blank of the size, which is no image when an edge is below 1
Blank(w, h) == IF w < 1 \/ h < 1 THEN NullPieceImage ELSE PieceImage(w, h, 0)

\* the cursor after an image that ends at x in row y
Wrap(x, y) ==
    IF x >= whole_size[1] THEN <<0, y + max_piece_size[2]>> ELSE <<x, y>>

\* the cursor algorithm from tile i at cursor (x, y), for at most n images:
\* a blank while the tile's offset differs from the cursor, the tile on a
\* match, blanks after the last tile until y reaches the canvas height
RECURSIVE CursorRun(_, _, _, _, _)
CursorRun(q, i, x, y, n) ==
    IF n = 0 THEN << >>
    ELSE IF i <= Len(q) /\ q[i].offset = <<x, y>>
    THEN LET c == Wrap(x + q[i].image.width, y)
         IN  <<[offset |-> <<x, y>>, image |-> q[i].image]>>
                 \o CursorRun(q, i + 1, c[1], c[2], n - 1)
    ELSE IF i <= Len(q) \/ y < whole_size[2]
    THEN LET w == Min(max_piece_size[1], whole_size[1] - x)
             h == Min(max_piece_size[2], whole_size[2] - y)
             c == Wrap(x + w, y)
         IN  <<[offset |-> <<x, y>>, image |-> Blank(w, h)]>>
                 \o CursorRun(q, i, c[1], c[2], n - 1)
    ELSE << >>

\* the pieces are the tiles of _data, each once, in ascending (y, x) order
PiecesSorted ==
    /\ Len(pieces) = Len(lt_data)
    /\ \A i \in 1..Len(lt_data) : \E k \in 1..Len(pieces) :
          /\ pieces[k].offset = lt_data[i].offset
          /\ pieces[k].image.id = i
    /\ \A k \in 1..(Len(pieces) - 1) : ~Before(pieces[k + 1].offset, pieces[k].offset)

\* the images and offsets pushed so far, as one sequence
Emitted == [k \in 1..Len(lt_images) |-> [offset |-> offsets[k], image |-> lt_images[k]]]

\* C21: the images convert returns are those of the cursor algorithm over
\* the tiles sorted by (y, x), started at (0, 0): blanks of size
\* (min(maxW, W - x), min(maxH, H - y)) up to each tile, the tile with the
\* cursor moved by its own width, the wrap to (0, y + maxH) at x >= W, and
\* blanks after the last tile until y >= H.
C21_CursorAlgorithm ==
    (ltpc = "done" /\ lt_res = "texture") =>
        /\ PiecesSorted
        /\ Emitted = CursorRun(pieces, 1, 0, 0, Len(lt_images) + 1)

\* C21 witness: the 10 x 6 canvas with tiles at (0, 0) and (8, 0) gave the
\* six images of the example
C21_Witness ==
    /\ ltpc = "done" /\ lt_res = "texture" /\ lt_calls = 1
    /\ whole_size = <<10, 6>> /\ max_piece_size = <<4, 4>>
    /\ lt_data[1].offset = <<8, 0>>
    /\ offsets = <<<<0, 0>>, <<4, 0>>, <<8, 0>>, <<0, 4>>, <<4, 4>>, <<8, 4>>>>
    /\ lt_images = <<PieceImage(4, 4, 2), PieceImage(4, 4, 0), PieceImage(2, 4, 1),
                     PieceImage(4, 2, 0), PieceImage(4, 2, 0), PieceImage(2, 2, 0)>>

\* the PNG / WebP branch of load_image_from_fileV3 returned
EmbeddedDone == ipc = "done" /\ branch = "embedded" /\ ierr # "CRASH"

\* C22: in the PNG / WebP branch the word mipmaps is read once, and after
\* k levels are skipped of n declared, n - k images are decoded.
C22_CountReadOnce ==
    EmbeddedDone =>
        /\ mmReads = 1
        /\ ierr = "OK" => Len(mipmap_images) = e_declared - e_skips

\* the version 4 2D decoder has handed the body to the engine's image reader
BodyHanded == cpc \in {"decoded", "done"} /\ v4_decodes = 1

\* C23: in load_image_from_fileV3 and in _load_data_ctex2d_v4, a file whose
\* stream bit is clear loses no mip level to the size limit, whatever the
\* limit requested: the first skips none, the second hands its image reader
\* no limit. The bit is looked for in the word of each format that can
\* carry it: df of a version 3 file, the header's flags word of a version 4
\* file, whose body's data-format word is a small code
C23_LimitOnlyForStream ==
    /\ (ipc # "idle" /\ ~BitSet(df, FORMAT_BIT_STREAM)) => idx = 0 /\ e_skips = 0
    /\ (BodyHanded /\ ~BitSet(r_texture_flags, FORMAT_BIT_STREAM)) => c_limit <= 0

\* C24: no decoder goes on with a file it could not open: none uses the
\* null handle, and the version 3 2D decoder and the layered decoders return
\* the error of the open with nothing read
C24_OpenFailureReported ==
    /\ c_err # "CRASH"
    /\ (ipc = "done" /\ ierr \in OpenErrors) => branch = "none" /\ image = EmptyImage
    /\ (lpc \in {"decoded", "done"} /\ derr \in OpenErrors)
           => v4_words = 0 /\ images = << >> /\ r_width = 0

\* C25 as the specification states it: seven words after the magic, so the
\* body handed to the image reader begins at byte 32
C25_BodyAt32 ==
    BodyHanded => v4_words - 1 = 7 /\ c_pos = 32

\* C25: after the 4 magic bytes _load_data_ctex2d_v4 consumes the version
\* word, the two override words, the flags word, the mipmap-limit word and
\* three reserved words (eight 32-bit words), so the body handed to the image
\* reader begins at byte 36; the data-format word it reads next is given back
\* by a seek
C25_BodyAt36 ==
    BodyHanded => v4_words - 1 = 8 /\ c_pos = 36

C25_Witness ==
    /\ cpc = "done" /\ c_res = "texture" /\ v4_decodes = 1 /\ c_pos = 36
    /\ r_texture_flags = FORMAT_BIT_STREAM

\* C26: after a successful 2D custom_load the extra entry data_format is the
\* data-format word read from the file and, for a version 4 file,
\* texture_flags is its flags word
C26_ExtraFromFile ==
    (cpc = "done" /\ c_res = "texture") =>
        IF c_t = "FORMAT_V3_STREAM_TEXTURE2D"
        THEN extra.data_format = df
        ELSE extra = [data_format |-> r_data_format, texture_flags |-> r_texture_flags]

\* the loop can never end: a max tile edge is 0, so the cursor does not
\* advance, or the piece waited for lies behind the cursor, which only moves
\* forward
Endless ==
    \/ max_piece_size[1] <= 0
    \/ max_piece_size[2] <= 0
    \/ /\ piece_i <= Len(pieces)
       /\ \/ pieces[piece_i].offset[2] < expected_y
          \/ /\ pieces[piece_i].offset[2] = expected_y
             /\ pieces[piece_i].offset[1] < expected_x

\* C27: convert terminates for every finite tile list: every call returns,
\* whatever the offsets, the tile sizes and the canvas
C27_ConvertTerminates == (ltpc = "loop") ~> (ltpc = "done")

\* every call that is followed past the cap is in a loop that cannot end
CapMeansEndless == ltpc = "running" => Endless

\* C28: in the lossless branch of _load_layered_texture_v3 with more than
\* one stored image, the copies that concatenate the decoded images never
\* write past the total_size bytes of img_data
C28_ConcatWithinBuffer == ~overflow

\* the custom_load that load_images_from_layered_tex called gave no texture
LoadFailed == li_pc = "done" /\ lpc = "done" /\ lres = "null"

\* C29: load_images_from_layered_tex never uses a null texture: when the
\* custom_load it calls fails, it returns the empty list and the loader's
\* error, without a call on the texture
C29_NoNullTexture ==
    LoadFailed => li_ret = "empty" /\ li_err = r_error /\ li_err # "OK"

\* the PNG / WebP branch returned on a chain whose count word is 0
EmptyChain == ipc = "done" /\ branch = "embedded" /\ e_declared = 0

\* a layered decoder returned OK with no image: its depth or iteration
\* count was 0
EmptyDecode == lpc = "done" /\ derr = "OK" /\ images = << >>

\* C30: a count of 0 never leads to a read of element 0 of an empty list: a
\* chain of 0 stored images is ERR_FILE_CORRUPT, and a decode of 0 images
\* makes the 3D and layered custom_load fail with an error
C30_ZeroCountRejected ==
    /\ EmptyChain => ierr = "ERR_FILE_CORRUPT"
    /\ EmptyDecode => lres = "null" /\ r_error # "OK"

====
